---- MODULE Spec2Model ----
(***************************************************************************)
(* Conversation orchestration engine of lemon-tree-core                    *)
(* (chatAgentConversationService): conversation resolution, the message    *)
(* store, the streaming and blocking turn loops with recursive tool        *)
(* dispatch, the predefined-answer path and the ownership-checked          *)
(* conversation management operations.                                     *)
(*                                                                         *)
(* Text (message content, tool names, tool arguments) is a sequence of     *)
(* one-character strings, so that prefix tests, slicing, splitting and     *)
(* concatenation are computed as the Go code computes them.  Fixed texts   *)
(* the code formats (error texts, tool results) are one-element sequences  *)
(* holding the text.                                                       *)
(***************************************************************************)
EXTENDS Integers, Sequences, FiniteSets, TLC

VARIABLES
    conversations,   \* ltc_chat_agent_conversation rows, by id
    messageRows,     \* ltc_chat_agent_message rows, in creation order
    attachments,     \* ltc_chat_agent_attachment rows, in creation order
    nextRequest,     \* number of request ids generated so far (uuid.New)
    result,          \* what the last service call returned to its caller
    pc,              \* position of the turn's producer goroutine
    turn,            \* parameters of the turn in flight (ctx, ids, mode)
    messages,        \* in-memory message list of the current LLM round
    events,          \* frames written to the caller-facing pipe, in order
    closed,          \* the caller-facing pipe has been closed (pw.Close)
    round,           \* locals of the current aiProcess(Streamable) round
    llmLog,          \* message lists handed to the LLM client this turn
    toolLog,         \* tool invocations made this turn (callTool)
    faults,          \* store writes that failed during this turn's loop
    table,           \* rows of a listed table as its queries see them (id, created_at)
    listing,         \* a caller paging through a list operation: its pages so far
    mcpStore,        \* saved MCP server configurations, their tools, the agent's enabling
    mcpEnv,          \* the live MCP servers: reachability and the tools they report
    caller           \* the HTTP consumer of the stream and its request context

vars == << conversations, messageRows, attachments, nextRequest, result, pc,
           turn, messages, events, closed, round, llmLog, toolLog, faults,
           table, listing, mcpStore, mcpEnv, caller >>

\* the state list operations page over, which the turn engine and the conversation
\* management operations leave alone
listVars == << table, listing >>

\* the MCP configuration and the live servers, read by tool resolution and by the
\* Tool Invoker and written by neither
mcpVars == << mcpStore, mcpEnv >>

----------------------------------------------------------------------------
(* Bounds of the model *)

MaxConvs == 2
MaxTurns == 2
MaxRounds == 2
MaxChunks == 3
MaxAttachments == 1
MaxWriteFailures == 1
MaxRecords == 3
MaxClock == 3

----------------------------------------------------------------------------
(* Domains *)

Agents == {"agentA", "agentB"}
ServiceUsers == {"u1", "u2"}
ConvIds == 1..MaxConvs

ApplicationOf(agent) == IF agent = "agentA" THEN "app1" ELSE "app2"

\* The conversation id a request carries: absent, empty, not a UUID, or a
\* well-formed UUID (one of ConvIds, which may or may not name a stored row).
NilID == "nil"
EmptyID == "empty"
BadFormatID == "bad"
RequestConvIds == {NilID, EmptyID, BadFormatID} \cup {ToString(c) : c \in ConvIds}

UuidParseOk(s) == \E c \in ConvIds : ToString(c) = s
UuidParse(s) == CHOOSE c \in ConvIds : ToString(c) = s

----------------------------------------------------------------------------
(* Text helpers: strings.HasPrefix, slicing, strings.Split *)

HasPrefix(s, p) == Len(s) >= Len(p) /\ SubSeq(s, 1, Len(p)) = p

\* s[n:] of Go
SliceFrom(s, n) == SubSeq(s, n + 1, Len(s))

RECURSIVE IndexOf(_, _, _)
\* first position >= from at which sep occurs in s, 0 if none
IndexOf(s, sep, from) ==
    IF from + Len(sep) - 1 > Len(s) THEN 0
    ELSE IF SubSeq(s, from, from + Len(sep) - 1) = sep THEN from
    ELSE IndexOf(s, sep, from + 1)

RECURSIVE Split(_, _)
\* strings.Split(s, sep) for a non-empty sep
Split(s, sep) ==
    LET i == IndexOf(s, sep, 1) IN
    IF i = 0 THEN << s >>
    ELSE << SubSeq(s, 1, i - 1) >> \o Split(SubSeq(s, i + Len(sep), Len(s)), sep)

RECURSIVE Flatten(_)
\* concatenation of a sequence of texts
Flatten(ss) == IF ss = << >> THEN << >> ELSE Head(ss) \o Flatten(Tail(ss))

SelectIdx(seq, Test(_)) == { i \in 1..Len(seq) : Test(seq[i]) }

NoThinkPrefix == << "/", "n", "o", "_", "t", "h", "i", "n", "k" >>
NoThinkLen == 9

Hi == << "h", "i" >>

UserMessages == { << "h", "i" >>, NoThinkPrefix \o << " ", "h", "i" >> }
Titles == { << "t" >> }
SystemPrompt == << "s", "y", "s" >>
PredefinedAnswers == { << "O", "K" >>, << "O" >> }

----------------------------------------------------------------------------
(* Rows of the stores *)

NoConversation ==
    [ st |-> "none", Title |-> << >>, ApplicationID |-> "", ChatAgentID |-> "",
      ServiceUserID |-> "" ]

\* models.ChatAgentMessage
MessageRow(agent, conv, req, type, role, content, callId, name, args, output) ==
    [ ApplicationID |-> ApplicationOf(agent), ChatAgentID |-> agent,
      ConversationID |-> conv, RequestID |-> req, Type |-> type, Role |-> role,
      Content |-> content, FunctionCallID |-> callId, FunctionCallName |-> name,
      FunctionCallArguments |-> args, FunctionCallOutput |-> output,
      AttachmentsInfo |-> {}, DeletedAt |-> FALSE ]

\* al_client.ChatMessage
ChatMessage(role, content, toolCalls, toolCallId) ==
    [ Role |-> role, Content |-> content, ToolCalls |-> toolCalls,
      ToolCallID |-> toolCallId ]

\* dto.ChatMessageResponseEventDto, one "data: <json>" frame of the pipe
Event(conv, req, type, content) ==
    [ ConversationID |-> conv, RequestID |-> req, MessageType |-> type,
      Content |-> content ]

\* baseRepository.GetByID: the row with this id that is not soft-deleted
GetByID(c) == conversations[c].st = "live"

FreeConvIds == { c \in ConvIds : conversations[c].st = "none" }
\* uuid generation: a fresh id, the least unused one
NewConvId == CHOOSE c \in FreeConvIds : \A d \in FreeConvIds : c <= d

\* CreateConversation: the title is the user message with a leading /no_think cut
FilterUserMessage(userMessage) ==
    IF HasPrefix(userMessage, NoThinkPrefix)
    THEN SliceFrom(userMessage, NoThinkLen)
    ELSE userMessage

CreateConversation(agent, serviceUser, userMessage) ==
    [ st |-> "live", Title |-> FilterUserMessage(userMessage),
      ApplicationID |-> ApplicationOf(agent), ChatAgentID |-> agent,
      ServiceUserID |-> serviceUser ]

\* a variant of ResolveConversation whose lookup also finds deleted conversations
ResolveConversationUnscoped(reqConv) ==
    IF reqConv = NilID \/ reqConv = EmptyID THEN "create"
    ELSE IF ~UuidParseOk(reqConv) THEN "invalid"
    ELSE IF conversations[UuidParse(reqConv)].st # "none" THEN "reuse"
    ELSE "create"

\* UserSendMessage, conversation resolution: which branch the request takes
ResolveConversation(reqConv) ==
    IF reqConv = NilID \/ reqConv = EmptyID THEN "create"
    ELSE IF ~UuidParseOk(reqConv) THEN "invalid"
    ELSE IF GetByID(UuidParse(reqConv)) THEN "reuse"
    ELSE "create"

\* UserSendMessagePredefinedAnswer tests only req.ConversationID == nil
ResolveConversationPredefined(reqConv) ==
    IF reqConv = NilID THEN "create"
    ELSE IF ~UuidParseOk(reqConv) THEN "invalid"
    ELSE IF GetByID(UuidParse(reqConv)) THEN "reuse"
    ELSE "create"

HistoryPageSize == 100

RECURSIVE Reverse(_)
Reverse(s) == IF s = << >> THEN << >> ELSE Reverse(Tail(s)) \o << Head(s) >>

RECURSIVE SelectRows(_, _, _)
\* the rows of messageRows at the indices idx (ascending), as a sequence
SelectRows(rows, idx, i) ==
    IF i > Len(rows) THEN << >>
    ELSE (IF i \in idx THEN << rows[i] >> ELSE << >>) \o SelectRows(rows, idx, i + 1)

FirstN(s, n) == IF Len(s) <= n THEN s ELSE SubSeq(s, 1, n)

\* GetChatMessageList(ctx, conversationID, "", size): the rows of the
\* conversation written by the calling agent, not deleted, newest first
GetChatMessageList(agent, conv, size) ==
    LET idx == { i \in 1..Len(messageRows) :
                   /\ messageRows[i].ChatAgentID = agent
                   /\ messageRows[i].ConversationID = conv
                   /\ ~messageRows[i].DeletedAt }
    IN FirstN(Reverse(SelectRows(messageRows, idx, 1)), size)

\* a variant of HistoryOf that turns every loaded row into a history message
HistoryOfEveryRow(list) ==
    [ i \in DOMAIN list |-> ChatMessage(list[i].Role, list[i].Content, << >>, "") ]

RECURSIVE HistoryOf(_)
\* only rows of type "message" with a role become history
HistoryOf(list) ==
    IF list = << >> THEN << >>
    ELSE (IF Head(list).Type = "message" /\ Head(list).Role # ""
          THEN << ChatMessage(Head(list).Role, Head(list).Content, << >>, "") >>
          ELSE << >>) \o HistoryOf(Tail(list))

----------------------------------------------------------------------------
(* Tools: names, arguments and the Tool Invoker (callTool, callMcpTool) *)

InternalToolPrefix == << "_", "_", "l", "a", "i", "_", "_" >>
CompositeKeyDelimiter == << "_", "_", "_", "_", "_" >>

\* the stored MCP server configurations, by primary key
McpServerConfigs == { "s1", "s2" }

\* utils.ShortUUID: the base-62 text of the id, one text per id, of digits and
\* letters only
ShortUUID(id) == IF id = "s1" THEN << "c", "1" >> ELSE << "c", "2" >>

\* the config_id column: SaveApplicationMcpServerConfig stores ShortUUID of the
\* primary key (GetByConfigID looks a configuration up by it)
McpConfigs == { ShortUUID(id) : id \in McpServerConfigs }

\* the config_id of a stored configuration of another application
ForeignMcpConfig == << "c", "3" >>

\* the application a stored configuration belongs to (ApplicationID)
McpConfigApplication(configID) == IF configID \in McpConfigs THEN "app1" ELSE "app2"

\* mcpConfigRepo.GetByConfigID: the stored configuration with this config_id,
\* of whichever application
GetByConfigID(configID) == configID \in McpConfigs \cup { ForeignMcpConfig }

McpToolName == << "c", "1" >> \o CompositeKeyDelimiter \o << "t" >>
UnknownConfigToolName == << "c", "9" >> \o CompositeKeyDelimiter \o << "t" >>
MalformedToolName == << "t" >>
InternalToolName == InternalToolPrefix \o << "x" >>

\* al_client.ToolCall (Function.Name and Function.Arguments flattened)
ToolCall(id, type, name, args) ==
    [ ID |-> id, Type |-> type, Name |-> name, Arguments |-> args ]

NoToolCall == ToolCall("", "", << >>, << >>)

\* json.Unmarshal([]byte(toolArgs), &map): over the argument alphabet
\* { "{", "}" } exactly the text {} parses
JsonUnmarshalOk(args) == args = << "{", "}" >>

McpOutcomes == { "ok", "connect_error", "call_error" }

ToolOutcome(backend, err, text, config, tool) ==
    [ backend |-> backend, err |-> err, text |-> text, config |-> config,
      tool |-> tool ]

\* callMcpTool: split the composite name, load the config, connect, call; the
\* config is not loaded when no row has the config id or the query fails
\* (mcp = "config_error")
callMcpTool(toolName, mcp) ==
    LET toolNameItems == Split(toolName, CompositeKeyDelimiter) IN
    IF Len(toolNameItems) # 2
    THEN ToolOutcome("none", "invalid tool name format", << >>, << >>, << >>)
    ELSE IF ~GetByConfigID(toolNameItems[1]) \/ mcp = "config_error"
    THEN ToolOutcome("none", "mcp config not found", << >>, toolNameItems[1], << >>)
    ELSE IF mcp = "connect_error"
    THEN ToolOutcome("none", "mcp client failed", << >>, toolNameItems[1], << >>)
    ELSE IF mcp = "call_error"
    THEN ToolOutcome("mcp", "mcp call failed", << >>, toolNameItems[1],
                     toolNameItems[2])
    ELSE ToolOutcome("mcp", "", << "mcp content" >>, toolNameItems[1],
                     toolNameItems[2])

\* callTool: parse the arguments, then route by the internal-tool prefix
callTool(toolCall, mcp) ==
    IF ~JsonUnmarshalOk(toolCall.Arguments)
    THEN ToolOutcome("none", "invalid json", << >>, << >>, << >>)
    ELSE IF HasPrefix(toolCall.Name, InternalToolPrefix)
    THEN ToolOutcome("internal", "", << "internal tool result" >>, << >>,
                     toolCall.Name)
    ELSE callMcpTool(toolCall.Name, mcp)

\* the result string of a tool invocation in the streaming loop
StreamToolResult(outcome) ==
    IF outcome.err # "" THEN << "tool call failed" >> ELSE outcome.text

\* the result string of a tool invocation in the blocking loop
BlockingToolResult(outcome) ==
    IF outcome.err # "" THEN << "tool call failed: ", outcome.err >> ELSE outcome.text

----------------------------------------------------------------------------
(* Tool resolution: GetChatAgentMcpServerTools and prepareToolsList *)

ToolT == << "t" >>
\* a tool name that holds the delimiter of the composite key
ToolW == << "a" >> \o CompositeKeyDelimiter \o << "b" >>

\* ltc_application_mcp_server_tool: the saved tools, by primary key
SavedTools ==
    [ k1 |-> [ ApplicationMcpServerConfigID |-> "s1", Name |-> ToolT ],
      k2 |-> [ ApplicationMcpServerConfigID |-> "s1", Name |-> ToolW ],
      k3 |-> [ ApplicationMcpServerConfigID |-> "s2", Name |-> ToolT ] ]

SavedToolIds == DOMAIN SavedTools

\* ltc_chat_agent_mcp_server_tool for the agent: a row with Enabled set, a row
\* with Enabled cleared, or no row
EnablingStates == { "enabled", "disabled", "absent" }

\* what GetMcpClient and ListTools may meet at one server: GetByID of the
\* configuration fails, the transport cannot be created, Initialize fails, Ping
\* fails, ListTools fails, or the server answers
ServerStatuses ==
    { "up", "config_error", "connect_error", "handshake_error", "ping_error",
      "list_error" }

\* the store of the turn engine's runs: every saved tool enabled for the agent
SavedMcpStore == [ enabled |-> [ k \in SavedToolIds |-> "enabled" ] ]

\* the servers of the turn engine's runs: all up, reporting their saved tools
LiveMcpEnv ==
    [ queryOk |-> TRUE,
      lostTools |-> {},
      status |-> [ id \in McpServerConfigs |-> "up" ],
      reports |-> [ id \in McpServerConfigs |->
                      { SavedTools[k].Name :
                          k \in { j \in SavedToolIds :
                                    SavedTools[j].ApplicationMcpServerConfigID = id } } ] ]

\* step 1: the tool ids of the agent's rows whose Enabled is set
EnabledToolIDs == { k \in SavedToolIds : mcpStore.enabled[k] = "enabled" }

\* step 2: the enabled tools of one configuration; a tool whose row cannot be
\* loaded (mcpToolRepo.GetByID fails) is logged and left out
ConfigTools(id) ==
    { k \in EnabledToolIDs \ mcpEnv.lostTools :
        SavedTools[k].ApplicationMcpServerConfigID = id }

\* getToolsFromMcpServer after mcpConfigRepo.GetByID: the names the live server
\* reports, or an error
getToolsFromMcpServer(id) ==
    IF mcpEnv.status[id] = "up"
    THEN [ err |-> "", tools |-> mcpEnv.reports[id] ]
    ELSE [ err |-> mcpEnv.status[id], tools |-> {} ]

\* convertMcpToolToOpenAI: the name of the tool in the catalog
convertMcpToolToOpenAI(toolName, configID) ==
    [ Type |-> "function", Name |-> configID \o CompositeKeyDelimiter \o toolName ]

\* a variant of ReportedByServer that trusts the saved configuration
ReportedBySavedConfig(id, toolName) == TRUE

\* mcpToolsMap[tool.Name] exists: the live server reports a tool of this name
ReportedByServer(id, toolName) == toolName \in getToolsFromMcpServer(id).tools

\* step 4 for one configuration: nothing when the configuration cannot be
\* loaded or the server gives no tool list, else the enabled tools it reports
ServerCatalog(id) ==
    IF getToolsFromMcpServer(id).err # "" THEN {}
    ELSE { convertMcpToolToOpenAI(SavedTools[k].Name, ShortUUID(id)) :
             k \in { j \in ConfigTools(id) : ReportedByServer(id, SavedTools[j].Name) } }

\* a variant of ResolutionFails in which the failure of one server fails the
\* resolution
ResolutionFailsOnAnyServer ==
    \/ ~mcpEnv.queryOk
    \/ \E id \in McpServerConfigs : mcpEnv.status[id] # "up"

\* GetChatAgentMcpServerTools returns an error only when the query for the
\* agent's rows fails
ResolutionFails == ~mcpEnv.queryOk

\* GetChatAgentMcpServerTools: the tools of the catalog (the order of the list
\* follows Go's map iteration and is not fixed; the list is kept as a set)
GetChatAgentMcpServerTools ==
    [ err |-> IF ResolutionFails THEN "get agent mcp tools failed" ELSE "",
      tools |-> IF ResolutionFails THEN {}
                ELSE UNION { ServerCatalog(id) : id \in McpServerConfigs } ]

InternalToolNames == { << "x" >> }

\* prepareToolsList: the MCP tools, then one definition per internal tool
\* requested; the error of GetChatAgentMcpServerTools is returned as it is
prepareToolsList(usedInternalToolList) ==
    IF GetChatAgentMcpServerTools.err # ""
    THEN [ err |-> GetChatAgentMcpServerTools.err, tools |-> {} ]
    ELSE [ err |-> "",
           tools |-> GetChatAgentMcpServerTools.tools
                     \cup { [ Type |-> "function", Name |-> InternalToolPrefix \o n ] :
                              n \in usedInternalToolList } ]

\* UserSendMessage: a failed tool resolution is logged and the turn uses an
\* empty tool list
OpenaiToolsList(usedInternalToolList) ==
    IF prepareToolsList(usedInternalToolList).err # "" THEN {}
    ELSE prepareToolsList(usedInternalToolList).tools

----------------------------------------------------------------------------
(* The LLM client as environment: what a stream or a response may hold *)

LlmProviderTypes ==
    { "openai_chat_completions_api", "ollama", "volcano_engine", "other" }

\* createAIClient: TRUE when a client is returned
createAIClient(providerType) ==
    CASE providerType = "openai_chat_completions_api" -> TRUE
      [] providerType = "ollama" -> FALSE
      [] providerType = "volcano_engine" -> FALSE
      [] OTHER -> TRUE

Chunk(toolCalls, content, finishReason) ==
    [ Choices |-> 1, ToolCalls |-> toolCalls, Content |-> content,
      FinishReason |-> finishReason ]

NoChoiceChunk ==
    [ Choices |-> 0, ToolCalls |-> << >>, Content |-> << >>, FinishReason |-> "" ]

ContentChars == { "a", "b" }
FinishReasons == { "stop", "length" }

\* chunks that carry a tool-call fragment
\* a first fragment of call tc1, a continuing fragment without id, a continuing
\* fragment that repeats the id, and a complete call tc2
ToolChunks ==
    { Chunk(<< ToolCall("tc1", "function", McpToolName, << "{" >>) >>, << >>, ""),
      Chunk(<< ToolCall("", "", << >>, << "}" >>) >>, << >>, ""),
      Chunk(<< ToolCall("tc1", "", << >>, << "}" >>) >>, << >>, ""),
      Chunk(<< ToolCall("tc2", "function", InternalToolName, << "{", "}" >>) >>, << >>, "") }

PlainChunks ==
    { Chunk(<< >>, << c >>, "") : c \in ContentChars }
    \cup { Chunk(<< >>, << >>, f) : f \in FinishReasons }
    \cup { NoChoiceChunk }

\* blocking responses: Choices[0].Message and its finish reason
Response(content, toolCalls, finishReason) ==
    [ Content |-> content, ToolCalls |-> toolCalls, FinishReason |-> finishReason ]

PlainResponses ==
    { Response(<< c >>, << >>, f) : c \in ContentChars, f \in { "stop", "length" } }

ToolResponses ==
    { Response(<< >>, << ToolCall("tc1", "function", n, a) >>, "tool_calls") :
        n \in { McpToolName, MalformedToolName }, a \in { << "{", "}" >>, << "{" >> } }
    \cup
    { Response(<< "a" >>, << ToolCall("tc1", "function", McpToolName, << "{", "}" >>),
                          ToolCall("tc2", "function", n, << "{", "}" >>) >>, "tool_calls") :
        n \in { InternalToolName, UnknownConfigToolName } }

----------------------------------------------------------------------------
(* Locals of one round of aiProcessStreamable / aiProcess *)

NewRound(n) ==
    [ no |-> n, chunks |-> 0,
      recvErrors |-> 0,                     \* Recv errors logged by the receive loop
      finalToolCalls |-> << >>,             \* map[string]ToolCall
      firstSeen |-> << >>,                  \* the keys in the order the stream brought them
      currentToolCall |-> NoToolCall,
      currentToolCallID |-> "",
      answerFullContent |-> << >>,
      finishReason |-> "",                  \* the last choice.FinishReason received
      isNeedAiProcessContinue |-> FALSE,
      todoIds |-> {},                       \* keys the range loop has yet to visit
      todoCalls |-> << >>,                  \* blocking: calls yet to visit
      response |-> << >>,                   \* blocking: content of the response
      toolCall |-> NoToolCall,              \* loop variable of the tool loop
      toolResult |-> << >> ]

MapPut(m, k, v) == [ x \in (DOMAIN m) \cup {k} |-> IF x = k THEN v ELSE m[x] ]

\* lines 1252-1276: one fragment of choice.Delta.ToolCalls
AccumulateToolCall(r, toolCall) ==
    IF toolCall.ID # ""
    THEN LET started == ToolCall(toolCall.ID, toolCall.Type, toolCall.Name,
                                 toolCall.Arguments)
         IN [ r EXCEPT !.currentToolCallID = toolCall.ID,
                       !.currentToolCall = started,
                       !.finalToolCalls = MapPut(r.finalToolCalls, toolCall.ID, started),
                       !.firstSeen = IF toolCall.ID \in DOMAIN r.finalToolCalls THEN @
                                     ELSE Append(@, toolCall.ID) ]
    ELSE IF r.currentToolCallID # "" /\ r.currentToolCall.ID = r.currentToolCallID
    THEN LET named == IF toolCall.Name # << >>
                      THEN [ r.currentToolCall EXCEPT !.Name = toolCall.Name ]
                      ELSE r.currentToolCall
             grown == IF toolCall.Arguments # << >>
                      THEN [ named EXCEPT !.Arguments = @ \o toolCall.Arguments ]
                      ELSE named
         IN [ r EXCEPT !.currentToolCall = grown,
                       !.finalToolCalls = MapPut(r.finalToolCalls, r.currentToolCallID, grown) ]
    ELSE r

RECURSIVE AccumulateToolCalls(_, _)
AccumulateToolCalls(r, toolCalls) ==
    IF toolCalls = << >> THEN r
    ELSE AccumulateToolCalls(AccumulateToolCall(r, Head(toolCalls)), Tail(toolCalls))

----------------------------------------------------------------------------
(* Initial state: empty stores, no turn in flight *)

NoTurn ==
    [ agent |-> "", serviceUser |-> "", conv |-> 0, req |-> 0, mode |-> "none",
      answer |-> << >>, usedInternalToolList |-> {}, tools |-> {} ]

NoResult ==
    [ op |-> "", ok |-> TRUE, err |-> "", reqConv |-> "", conv |-> 0 ]

\* what the last call returned: the operation, the conversation id of its request,
\* whether it succeeded, its error and the conversation it worked on
Result(op, ok, err, reqConv, conv) ==
    [ op |-> op, ok |-> ok, err |-> err, reqConv |-> reqConv, conv |-> conv ]

\* no list operation has been called
NoListing == [ op |-> "", size |-> 0, pages |-> << >>, done |-> FALSE ]

\* the stores, the turn and its pipe after construction
EngineInit ==
    /\ conversations = [ c \in ConvIds |-> NoConversation ]
    /\ messageRows = << >>
    /\ attachments = << >>
    /\ nextRequest = 0
    /\ result = NoResult
    /\ pc = "idle"
    /\ turn = NoTurn
    /\ messages = << >>
    /\ events = << >>
    /\ closed = FALSE
    /\ round = NewRound(0)
    /\ llmLog = << >>
    /\ toolLog = << >>
    /\ faults = 0
    /\ caller = "reading"

Init ==
    /\ EngineInit
    /\ table = << >>
    /\ listing = NoListing
    /\ mcpStore = SavedMcpStore
    /\ mcpEnv = LiveMcpEnv

Idle == pc \in { "idle", "done" }

Emit(type, content) ==
    Append(events, Event(ToString(turn.conv), turn.req, type, content))

\* messageRepo.Create: the row is appended unless the write fails
Create(row, ok) == IF ok THEN Append(messageRows, row) ELSE messageRows

\* a write of the turn loop may fail; the failures of one turn are bounded
WriteOutcome(ok) ==
    IF ok THEN faults' = faults
    ELSE faults < MaxWriteFailures /\ faults' = faults + 1

\* a variant of AfterLoopWrite in which a failed write ends the goroutine
AfterLoopWriteAbort(ok, next) == IF ok THEN next ELSE "close"

\* where the goroutine goes after a store write of the turn loop: a failure is
\* logged (log.Printf) and the loop goes on as after a success
AfterLoopWrite(ok, next) == next

TurnRow(type, role, content, callId, name, args, output) ==
    MessageRow(turn.agent, turn.conv, turn.req, type, role, content, callId, name,
               args, output)

----------------------------------------------------------------------------
(* UploadAttachment *)

UploadAttachment(agent, ok) ==
    /\ UNCHANGED << listVars, mcpVars, caller >>
    /\ Len(attachments) < MaxAttachments
    /\ attachments' =
         IF ok
         THEN Append(attachments,
                     [ ApplicationID |-> ApplicationOf(agent), ChatAgentID |-> agent,
                       MessageID |-> 0, ConversationID |-> 0, DeletedAt |-> FALSE ])
         ELSE attachments
    /\ result' = Result("UploadAttachment", ok, IF ok THEN "" ELSE "save attachment failed",
                        "", 0)
    /\ UNCHANGED << conversations, messageRows, nextRequest, pc, turn, messages,
                    events, closed, round, llmLog, toolLog, faults >>

\* processMessageAttachments: bind every referenced, stored attachment to the message
BindAttachments(atts, msgId, conv) ==
    [ i \in 1..Len(attachments) |->
        IF i \in atts /\ ~attachments[i].DeletedAt
        THEN [ attachments[i] EXCEPT !.MessageID = msgId, !.ConversationID = conv ]
        ELSE attachments[i] ]

AttachmentsPrompt(atts) == IF atts # {} THEN << "attachment ids" >> ELSE << >>

----------------------------------------------------------------------------
(* UserSendMessage: the part that runs before the producer goroutine starts *)

\* a variant of UserWriteAborts that treats the failed write as the turn loop
\* treats its own: logged, and the turn goes on
UserWriteLogged(msgOk) == FALSE

\* the write of the user message returned an error: UserSendMessage returns it
UserWriteAborts(msgOk) == ~msgOk

\* usedInternal: the internal tools the request names (UsedInternalToolList)
\* convOk: the conversation write (create) or the history query (reuse) succeeds
\* msgOk: the write of the user message succeeds
UserSendMessage(agent, serviceUser, userMessage, reqConv, streamable, atts, usedInternal, convOk, msgOk) ==
    /\ UNCHANGED << listVars, mcpVars, caller >>
    /\ Idle
    /\ nextRequest < MaxTurns
    /\ LET kind == ResolveConversation(reqConv)
           conv == IF kind = "reuse" THEN UuidParse(reqConv) ELSE NewConvId
           history == IF kind = "reuse"
                      THEN HistoryOf(GetChatMessageList(agent, conv, HistoryPageSize))
                      ELSE << >>
           requestID == nextRequest + 1
           fail(err, c) == Result("UserSendMessage", FALSE, err, reqConv, c)
           userRow == MessageRow(agent, conv, requestID, "message", "user", userMessage,
                                 "", << >>, << >>, << >>)
           bound == { i \in atts : i <= Len(attachments) /\ ~attachments[i].DeletedAt }
       IN
       IF kind = "invalid"
       THEN /\ result' = fail("invalid conversation id", 0)
            /\ UNCHANGED << conversations, messageRows, attachments, nextRequest, pc,
                            turn, messages, events, closed, round, llmLog, toolLog, faults >>
       ELSE /\ kind = "create" => FreeConvIds # {}
            /\ IF ~convOk
               THEN /\ result' = fail(IF kind = "create" THEN "create conversation failed"
                                      ELSE "get history failed", 0)
                    /\ UNCHANGED << conversations, messageRows, attachments, nextRequest,
                                    pc, turn, messages, events, closed, round, llmLog,
                                    toolLog, faults >>
               ELSE /\ conversations' =
                         IF kind = "create"
                         THEN [ conversations EXCEPT
                                  ![conv] = CreateConversation(agent, serviceUser, userMessage) ]
                         ELSE conversations
                    /\ nextRequest' = requestID
                    /\ IF UserWriteAborts(msgOk)
                       THEN /\ result' = fail("save user message failed", conv)
                            /\ UNCHANGED << messageRows, attachments, pc, turn, messages,
                                            events, closed, round, llmLog, toolLog, faults >>
                       ELSE /\ messageRows' =
                                 Create(IF atts # {}
                                        THEN [ userRow EXCEPT !.AttachmentsInfo = bound ]
                                        ELSE userRow, msgOk)
                            /\ attachments' = BindAttachments(atts, Len(messageRows) + 1, conv)
                            /\ messages' =
                                 << ChatMessage("system", SystemPrompt, << >>, "") >>
                                 \o history
                                 \o << ChatMessage("user", AttachmentsPrompt(atts) \o userMessage,
                                                   << >>, "") >>
                            /\ turn' = [ agent |-> agent, serviceUser |-> serviceUser,
                                         conv |-> conv, req |-> requestID,
                                         mode |-> IF streamable THEN "stream" ELSE "block",
                                         answer |-> << >>,
                                         usedInternalToolList |-> usedInternal,
                                         tools |-> OpenaiToolsList(usedInternal) ]
                            /\ pc' = "start"
                            /\ events' = << >>
                            /\ closed' = FALSE
                            /\ round' = NewRound(1)
                            /\ llmLog' = << >>
                            /\ toolLog' = << >>
                            /\ faults' = 0
                            /\ result' = Result("UserSendMessage", TRUE, "", reqConv, conv)

----------------------------------------------------------------------------
(* The producer goroutine of aiProcessStreamable / aiProcess.  A recursive   *)
(* continuation runs the same code on a new pipe whose frames the caller     *)
(* copies to its own pipe (io.Copy) after it has written all of its own; the *)
(* caller-facing stream is therefore the rounds' frames in round order, and  *)
(* the rounds are modelled as iterations writing to the one stream.          *)

LastRound == round.no >= MaxRounds

\* a variant of ErrorExit that writes the error frame and goes on to the LLM call
ErrorExitWithoutReturn(content) ==
    /\ events' = Emit("error", content)
    /\ pc' = "start"

\* pw.Write of an error frame followed by return: the goroutine ends, and the
\* deferred pw.Close() is all that is left to run
ErrorExit(content) ==
    /\ events' = Emit("error", content)
    /\ pc' = "close"

\* the goroutine's first steps: configuration, client, the call to the LLM
\* config: "missing" or the provider type; llmUp: the LLM call returns no error
StartRound(config, llmUp, response) ==
    /\ UNCHANGED << listVars, mcpVars, caller >>
    /\ pc = "start"
    /\ UNCHANGED << conversations, messageRows, attachments, nextRequest, result, turn,
                    messages, closed, toolLog, faults >>
    /\ IF config = "missing"
       THEN /\ ErrorExit(<< "get config failed" >>)
            /\ UNCHANGED << round, llmLog >>
       ELSE IF ~createAIClient(config)
       THEN /\ ErrorExit(<< "create AI client failed" >>)
            /\ UNCHANGED << round, llmLog >>
       ELSE /\ llmLog' = Append(llmLog, messages)
            /\ IF ~llmUp
               THEN /\ ErrorExit(<< "AI process error" >>)
                    /\ UNCHANGED round
               ELSE /\ events' = events
                    /\ IF turn.mode = "stream"
                       THEN /\ pc' = "recv"
                            /\ UNCHANGED round
                       ELSE /\ pc' = "dispatch"
                            /\ round' = [ round EXCEPT !.response = response.Content,
                                                       !.finishReason = response.FinishReason,
                                                       !.todoCalls = response.ToolCalls ]

\* what one received chunk does to the round's locals (lines 1244-1290)
ApplyChunk(r, chunk) ==
    LET r1 == AccumulateToolCalls(r, chunk.ToolCalls) IN
    [ r1 EXCEPT !.answerFullContent = @ \o chunk.Content,
                !.finishReason = IF chunk.FinishReason # "" THEN chunk.FinishReason ELSE @ ]

\* one iteration of the receive loop with a chunk; ok: the assistant write succeeds
RecvChunk(chunk, ok) ==
    /\ UNCHANGED << listVars, mcpVars, caller >>
    /\ pc = "recv"
    /\ round.chunks < MaxChunks
    /\ UNCHANGED << conversations, attachments, nextRequest, result, turn, messages,
                    closed, llmLog, toolLog >>
    /\ IF chunk.Choices = 0
       THEN /\ round' = [ round EXCEPT !.chunks = @ + 1 ]
            /\ UNCHANGED << messageRows, events, pc, faults >>
       ELSE LET r1 == [ ApplyChunk(round, chunk) EXCEPT !.chunks = @ + 1 ]
                delta == IF chunk.Content # << >>
                         THEN << Event(ToString(turn.conv), turn.req, "answer_delta",
                                       chunk.Content) >>
                         ELSE << >>
            IN IF chunk.FinishReason = "stop"
               THEN /\ WriteOutcome(ok)
                    /\ messageRows' =
                         Create(TurnRow("message", "assistant", r1.answerFullContent,
                                        "", << >>, << >>, << >>), ok)
                    /\ events' = events \o delta
                                 \o << Event(ToString(turn.conv), turn.req, "answer",
                                             r1.answerFullContent) >>
                    /\ round' = [ r1 EXCEPT !.todoIds = DOMAIN r1.finalToolCalls ]
                    /\ pc' = AfterLoopWrite(ok, "dispatch")
               ELSE /\ events' = events \o delta
                    /\ round' = r1
                    /\ pc' = "recv"
                    /\ UNCHANGED << messageRows, faults >>

\* stream.Recv returns an error other than io.EOF: logged, the loop goes on
RecvError ==
    /\ UNCHANGED << listVars, mcpVars, caller >>
    /\ pc = "recv"
    /\ round.chunks < MaxChunks
    /\ round' = [ round EXCEPT !.chunks = @ + 1, !.recvErrors = @ + 1 ]
    /\ UNCHANGED << conversations, messageRows, attachments, nextRequest, result, turn,
                    messages, events, closed, pc, llmLog, toolLog, faults >>

\* stream.Recv returns io.EOF
RecvEOF ==
    /\ UNCHANGED << listVars, mcpVars, caller >>
    /\ pc = "recv"
    /\ round' = [ round EXCEPT !.todoIds = DOMAIN round.finalToolCalls ]
    /\ pc' = "dispatch"
    /\ UNCHANGED << conversations, messageRows, attachments, nextRequest, result, turn,
                    messages, events, closed, llmLog, toolLog, faults >>

\* the frame that announces a tool call
ToolCallEvent(toolCall) ==
    IF turn.mode = "stream"
    THEN Event(ToString(turn.conv), turn.req, "tool_call", toolCall.Name)
    ELSE Event(ToString(turn.conv), turn.req, "tool_call", << "call tool: " >> \o toolCall.Name)

\* top of the tool loop: take the next tool call and announce it.  The streaming
\* loop ranges over a map, so it may visit the accumulated calls in any order.
NextToolCall ==
    /\ UNCHANGED << listVars, mcpVars, caller >>
    /\ pc = "dispatch"
    /\ UNCHANGED << conversations, messageRows, attachments, nextRequest, result, turn,
                    messages, closed, llmLog, toolLog, faults >>
    /\ IF turn.mode = "stream"
       THEN /\ round.todoIds # {}
            /\ \E id \in round.todoIds :
                 /\ round' = [ round EXCEPT !.todoIds = @ \ {id},
                                            !.toolCall = round.finalToolCalls[id],
                                            !.isNeedAiProcessContinue = TRUE ]
                 /\ events' = Append(events, ToolCallEvent(round.finalToolCalls[id]))
            /\ pc' = "save_call"
       ELSE /\ round.todoCalls # << >>
            /\ round' = [ round EXCEPT !.todoCalls = Tail(@),
                                       !.toolCall = Head(round.todoCalls),
                                       !.isNeedAiProcessContinue = TRUE ]
            /\ events' = Append(events, ToolCallEvent(Head(round.todoCalls)))
            /\ pc' = "invoke"

\* streaming: persist the function_call row, then announce the processing
SaveFunctionCall(ok) ==
    /\ UNCHANGED << listVars, mcpVars, caller >>
    /\ pc = "save_call"
    /\ WriteOutcome(ok)
    /\ messageRows' =
         Create(TurnRow("function_call", "", << >>, round.toolCall.ID, round.toolCall.Name,
                        round.toolCall.Arguments, << >>), ok)
    /\ events' = Emit("tool_call_processing", round.toolCall.Name)
    /\ pc' = AfterLoopWrite(ok, "invoke")
    /\ UNCHANGED << conversations, attachments, nextRequest, result, turn, messages,
                    closed, round, llmLog, toolLog >>

ToolResult(outcome) ==
    IF turn.mode = "stream" THEN StreamToolResult(outcome) ELSE BlockingToolResult(outcome)

\* s.callTool(ctx, chatAgent.ID, toolCall)
InvokeTool(mcp) ==
    /\ UNCHANGED << listVars, mcpVars, caller >>
    /\ pc = "invoke"
    /\ LET outcome == callTool(round.toolCall, mcp) IN
       /\ round' = [ round EXCEPT !.toolResult = ToolResult(outcome) ]
       /\ toolLog' = Append(toolLog, [ call |-> round.toolCall, outcome |-> outcome,
                                       round |-> round.no ])
    /\ pc' = IF turn.mode = "stream" THEN "save_output" ELSE "emit_result"
    /\ UNCHANGED << conversations, messageRows, attachments, nextRequest, result, turn,
                    messages, events, closed, llmLog, faults >>

\* the two messages a finished tool call adds to the next round's message list
WithToolMessages(list, toolCall, toolResult) ==
    list \o << ChatMessage("assistant", << >>, << toolCall >>, ""),
               ChatMessage("tool", toolResult, << >>, toolCall.ID) >>

\* streaming: persist the function_call_output row, announce the end, extend the list
SaveFunctionCallOutput(ok) ==
    /\ UNCHANGED << listVars, mcpVars, caller >>
    /\ pc = "save_output"
    /\ WriteOutcome(ok)
    /\ messageRows' =
         Create(TurnRow("function_call_output", "", << >>, round.toolCall.ID,
                        round.toolCall.Name, << >>, round.toolResult), ok)
    /\ events' = Emit("tool_call_end", round.toolCall.Name)
    /\ messages' = WithToolMessages(messages, round.toolCall, round.toolResult)
    /\ pc' = AfterLoopWrite(ok, "dispatch")
    /\ UNCHANGED << conversations, attachments, nextRequest, result, turn, closed,
                    round, llmLog, toolLog >>

\* blocking: announce the result, extend the list
EmitToolResult ==
    /\ UNCHANGED << listVars, mcpVars, caller >>
    /\ pc = "emit_result"
    /\ events' = Emit("tool_result", round.toolResult)
    /\ messages' = WithToolMessages(messages, round.toolCall, round.toolResult)
    /\ pc' = "dispatch"
    /\ UNCHANGED << conversations, messageRows, attachments, nextRequest, result, turn,
                    closed, round, llmLog, toolLog, faults >>

ToolLoopDone ==
    IF turn.mode = "stream" THEN round.todoIds = {} ELSE round.todoCalls = << >>

\* a variant of NeedsContinue with a recursion depth of one round
NeedsContinueWithinDepth(r) == r.isNeedAiProcessContinue /\ r.no < 1

\* if isNeedAiProcessContinue: the only test before the recursive call
NeedsContinue(r) == r.isNeedAiProcessContinue

\* after the tool loop: recurse when a tool was called; otherwise the blocking
\* path persists and emits the final answer; ok: the assistant write succeeds
Continue(ok) ==
    /\ UNCHANGED << listVars, mcpVars, caller >>
    /\ pc = "dispatch"
    /\ ToolLoopDone
    /\ UNCHANGED << conversations, attachments, nextRequest, result, turn, messages,
                    closed, llmLog, toolLog >>
    /\ IF NeedsContinue(round)
       THEN /\ round' = [ NewRound(round.no + 1) EXCEPT !.chunks = round.chunks ]
            /\ pc' = "start"
            /\ UNCHANGED << messageRows, events, faults >>
       ELSE /\ pc' = "close"
            /\ round' = round
            /\ IF turn.mode = "stream"
               THEN UNCHANGED << messageRows, events, faults >>
               ELSE /\ WriteOutcome(ok)
                    /\ messageRows' =
                         Create(TurnRow("message", "assistant", round.response, "",
                                        << >>, << >>, << >>), ok)
                    /\ events' = Emit("answer", round.response)

\* defer pw.Close(), in every goroutine of the recursion
ClosePipe ==
    /\ UNCHANGED << listVars, mcpVars, caller >>
    /\ pc = "close"
    /\ closed' = TRUE
    /\ pc' = "done"
    /\ UNCHANGED << conversations, messageRows, attachments, nextRequest, result, turn,
                    messages, events, round, llmLog, toolLog, faults >>

----------------------------------------------------------------------------
(* UserSendMessagePredefinedAnswer *)

\* convOk as for UserSendMessage; userOk, answerOk: the two message writes succeed
UserSendMessagePredefinedAnswer(agent, serviceUser, userMessage, answer, reqConv, streamable, convOk, userOk, answerOk) ==
    /\ UNCHANGED << listVars, mcpVars, caller >>
    /\ Idle
    /\ nextRequest < MaxTurns
    /\ LET kind == ResolveConversationPredefined(reqConv)
           conv == IF kind = "reuse" THEN UuidParse(reqConv) ELSE NewConvId
           requestID == nextRequest + 1
           fail(err, c) == Result("UserSendMessagePredefinedAnswer", FALSE, err,
                                  reqConv, c)
           userRow == MessageRow(agent, conv, requestID, "message", "user", userMessage,
                                 "", << >>, << >>, << >>)
           answerRow == MessageRow(agent, conv, requestID, "message", "assistant", answer,
                                   "", << >>, << >>, << >>)
       IN
       IF kind = "invalid"
       THEN /\ result' = fail("invalid conversation id", 0)
            /\ UNCHANGED << conversations, messageRows, attachments, nextRequest, pc,
                            turn, messages, events, closed, round, llmLog, toolLog, faults >>
       ELSE /\ kind = "create" => FreeConvIds # {}
            /\ IF ~convOk
               THEN /\ result' = fail(IF kind = "create" THEN "create conversation failed"
                                      ELSE "get history failed", 0)
                    /\ UNCHANGED << conversations, messageRows, attachments, nextRequest,
                                    pc, turn, messages, events, closed, round, llmLog,
                                    toolLog, faults >>
               ELSE /\ conversations' =
                         IF kind = "create"
                         THEN [ conversations EXCEPT
                                  ![conv] = CreateConversation(agent, serviceUser, userMessage) ]
                         ELSE conversations
                    /\ nextRequest' = requestID
                    /\ IF ~(userOk /\ answerOk)
                       THEN /\ result' = fail(IF ~userOk THEN "save user message failed"
                                              ELSE "save assistant message failed", conv)
                            /\ messageRows' = Create(userRow, userOk)
                            /\ UNCHANGED << attachments, pc, turn, messages, events,
                                            closed, round, llmLog, toolLog, faults >>
                       ELSE /\ messageRows' = messageRows \o << userRow, answerRow >>
                            /\ turn' = [ agent |-> agent, serviceUser |-> serviceUser,
                                         conv |-> conv, req |-> requestID,
                                         mode |-> IF streamable THEN "predefined_stream"
                                                  ELSE "predefined",
                                         answer |-> answer,
                                         usedInternalToolList |-> {}, tools |-> {} ]
                            /\ pc' = "predefined"
                            /\ events' = << >>
                            /\ closed' = FALSE
                            /\ round' = NewRound(0)
                            /\ messages' = << >>
                            /\ llmLog' = << >>
                            /\ toolLog' = << >>
                            /\ faults' = 0
                            /\ result' = Result("UserSendMessagePredefinedAnswer", TRUE, "",
                                                reqConv, conv)
                            /\ UNCHANGED attachments

\* a variant of PredefinedFrame that replays the answer as one delta
PredefinedFrameInOnePiece(answer, streamable, sent) ==
    IF streamable /\ sent < 1
    THEN [ type |-> "answer_delta", content |-> answer ]
    ELSE [ type |-> "answer", content |-> answer ]

\* the frame the replay goroutine writes after `sent` characters have gone out
PredefinedFrame(answer, streamable, sent) ==
    IF streamable /\ sent < Len(answer)
    THEN [ type |-> "answer_delta", content |-> << answer[sent + 1] >> ]
    ELSE [ type |-> "answer", content |-> answer ]

\* one pw.Write of the replay goroutine
PredefinedEmit ==
    /\ UNCHANGED << listVars, mcpVars, caller >>
    /\ pc = "predefined"
    /\ LET frame == PredefinedFrame(turn.answer, turn.mode = "predefined_stream",
                                    round.chunks)
       IN /\ events' = Emit(frame.type, frame.content)
          /\ round' = [ round EXCEPT !.chunks = @ + 1 ]
          /\ pc' = IF frame.type = "answer" THEN "close" ELSE "predefined"
    /\ UNCHANGED << conversations, messageRows, attachments, nextRequest, result, turn,
                    messages, closed, llmLog, toolLog, faults >>

----------------------------------------------------------------------------
(* DeleteConversation and RenameConversationTitle *)

\* a variant of OwnerMismatch that compares the agent alone
OwnerMismatchByAgent(conversation, agent, serviceUser) ==
    conversation.ChatAgentID # agent

\* the ownership test both operations make on the stored conversation
OwnerMismatch(conversation, agent, serviceUser) ==
    conversation.ChatAgentID # agent \/ conversation.ServiceUserID # serviceUser

\* queryOk: the message query succeeds; attQueryOk: the attachment query succeeds;
\* convOk: the conversation row delete succeeds; msgFail, attFail: the message and
\* attachment rows whose single delete fails (the failure is logged and skipped)
DeleteConversation(agent, serviceUser, convID, queryOk, attQueryOk, convOk, msgFail, attFail) ==
    LET fail(err) == Result("DeleteConversation", FALSE, err, convID, 0)
        quiet == UNCHANGED << conversations, messageRows, attachments >>
    IN
    /\ UNCHANGED << nextRequest, pc, turn, messages, events, closed, round, llmLog,
                    toolLog, faults, listVars, mcpVars, caller >>
    /\ IF ~UuidParseOk(convID)
       THEN result' = fail("invalid conversation id") /\ quiet
       ELSE LET c == UuidParse(convID) IN
       IF ~GetByID(c)
       THEN result' = fail("conversation not found") /\ quiet
       ELSE IF OwnerMismatch(conversations[c], agent, serviceUser)
       THEN result' = fail("not allowed to delete this conversation") /\ quiet
       ELSE IF ~queryOk
       THEN result' = fail("query messages failed") /\ quiet
       ELSE LET found == { i \in 1..Len(messageRows) :
                             /\ messageRows[i].ChatAgentID = agent
                             /\ messageRows[i].ConversationID = c
                             /\ ~messageRows[i].DeletedAt }
                bound == { i \in 1..Len(attachments) :
                             /\ found # {}
                             /\ attQueryOk
                             /\ attachments[i].ChatAgentID = agent
                             /\ attachments[i].MessageID \in found
                             /\ ~attachments[i].DeletedAt }
            IN   /\ msgFail \subseteq found
                 /\ attFail \subseteq bound
                 /\ messageRows' =
                      [ i \in 1..Len(messageRows) |->
                          IF i \in found \ msgFail
                          THEN [ messageRows[i] EXCEPT !.DeletedAt = TRUE ]
                          ELSE messageRows[i] ]
                 /\ attachments' =
                      [ i \in 1..Len(attachments) |->
                          IF i \in bound \ attFail
                          THEN [ attachments[i] EXCEPT !.DeletedAt = TRUE ]
                          ELSE attachments[i] ]
                 /\ IF convOk
                    THEN /\ conversations' = [ conversations EXCEPT ![c].st = "deleted" ]
                         /\ result' = Result("DeleteConversation", TRUE, "", convID, c)
                    ELSE /\ conversations' = conversations
                         /\ result' = fail("delete conversation failed")

\* ok: the conversation row update succeeds
RenameConversationTitle(agent, serviceUser, convID, newTitle, ok) ==
    LET fail(err) == Result("RenameConversationTitle", FALSE, err, convID, 0)
    IN
    /\ UNCHANGED << messageRows, attachments, nextRequest, pc, turn, messages, events,
                    closed, round, llmLog, toolLog, faults, listVars, mcpVars, caller >>
    /\ IF ~UuidParseOk(convID)
       THEN result' = fail("invalid conversation id") /\ UNCHANGED conversations
       ELSE LET c == UuidParse(convID) IN
       IF ~GetByID(c)
       THEN result' = fail("conversation not found") /\ UNCHANGED conversations
       ELSE IF OwnerMismatch(conversations[c], agent, serviceUser)
       THEN result' = fail("not allowed to rename this conversation")
            /\ UNCHANGED conversations
       ELSE IF ~ok
       THEN result' = fail("rename conversation failed") /\ UNCHANGED conversations
       ELSE /\ conversations' = [ conversations EXCEPT ![c].Title = newTitle ]
            /\ result' = Result("RenameConversationTitle", TRUE, "", convID, c)

----------------------------------------------------------------------------
(* The turn engine: requests of one agent and one service user against an   *)
(* LLM that may stream any chunk of the vocabulary                          *)

ConfigOutcomes == { "missing" } \cup LlmProviderTypes

StreamVocabulary == IF LastRound THEN PlainChunks ELSE PlainChunks \cup ToolChunks
ResponseVocabulary == IF LastRound THEN PlainResponses ELSE PlainResponses \cup ToolResponses

Next ==
    \/ \E c \in RequestConvIds, s \in BOOLEAN, ok1, ok2 \in BOOLEAN :
         pc = "idle" /\ UserSendMessage("agentA", "u1", << "h", "i" >>, c, s, {}, {}, ok1, ok2)
    \/ \E a \in PredefinedAnswers, c \in RequestConvIds, s \in BOOLEAN,
          ok1, ok2, ok3 \in BOOLEAN :
         /\ pc = "idle"
         /\ UserSendMessagePredefinedAnswer("agentA", "u1", << "h", "i" >>, a, c, s,
                                            ok1, ok2, ok3)
    \/ PredefinedEmit
    \/ \E cfg \in ConfigOutcomes, up \in BOOLEAN, r \in ResponseVocabulary :
         StartRound(cfg, up, r)
    \/ \E ch \in StreamVocabulary, ok \in BOOLEAN : RecvChunk(ch, ok)
    \/ RecvError
    \/ RecvEOF
    \/ NextToolCall
    \/ \E ok \in BOOLEAN : SaveFunctionCall(ok)
    \/ \E mcp \in McpOutcomes : InvokeTool(mcp)
    \/ \E ok \in BOOLEAN : SaveFunctionCallOutput(ok)
    \/ EmitToolResult
    \/ \E ok \in BOOLEAN : Continue(ok)
    \/ ClosePipe

Spec == Init /\ [][Next]_vars

----------------------------------------------------------------------------
(* Conversation management: the owner's blocking requests with every kind   *)
(* of conversation id, against an LLM that answers at once, and between the *)
(* turns DeleteConversation and RenameConversationTitle called by every     *)
(* (agent, service user) pair with every kind of conversation id            *)

ConvResponseVocabulary == { Response(<< "a" >>, << >>, "stop") }

ManagedConvIds == { BadFormatID } \cup { ToString(c) : c \in ConvIds }

NextConv ==
    \/ \E m \in UserMessages, c \in RequestConvIds, atts \in SUBSET (1..MaxAttachments),
          ok1, ok2 \in BOOLEAN :
         UserSendMessage("agentA", "u1", m, c, FALSE, atts, {}, ok1, ok2)
    \/ \E ok \in BOOLEAN : Idle /\ UploadAttachment("agentA", ok)
    \/ \E a \in Agents, u \in ServiceUsers, c \in ManagedConvIds,
          ok1, ok2, ok3 \in BOOLEAN :
         Idle /\ DeleteConversation(a, u, c, ok1, ok2, ok3, {}, {})
    \/ \E a \in Agents, u \in ServiceUsers, c \in ManagedConvIds, t \in Titles,
          ok \in BOOLEAN :
         Idle /\ RenameConversationTitle(a, u, c, t, ok)
    \/ \E r \in ConvResponseVocabulary : StartRound("openai_chat_completions_api", TRUE, r)
    \/ Continue(TRUE)
    \/ ClosePipe

SpecConv == Init /\ [][NextConv]_vars

----------------------------------------------------------------------------
(* GetChatMessageList and GetConversationList: cursor paging.  Both build   *)
(* the same query: the rows in scope (agent, conversation or service user,  *)
(* not deleted), those created before the row last_id names when a last_id  *)
(* is given, ORDER BY created_at DESC, LIMIT size.  created_at is the       *)
(* column's time stamp, which rows written in quick succession share.       *)

\* the tables a list operation may find: a row is its created_at and InScope,
\* whether it satisfies the query's WHERE on chat_agent_id, conversation_id /
\* service_user_id and deleted_at; its id is its position, and ids are given in
\* creation order, so created_at never decreases with the id
Tables ==
    UNION { { t \in [ 1..n -> [ CreatedAt : 1..MaxClock, InScope : BOOLEAN ] ] :
                \A i \in 1..n, j \in 1..n : i < j => t[i].CreatedAt <= t[j].CreatedAt } :
            n \in 0..MaxRecords }

NoLastID == 0

\* the rows the query's WHERE keeps: the cursor condition is added only when the
\* row last_id names is found
CursorScope(rows, lastID) ==
    { i \in DOMAIN rows :
        /\ rows[i].InScope
        /\ (lastID # NoLastID /\ lastID \in DOMAIN rows)
              => rows[i].CreatedAt < rows[lastID].CreatedAt }

\* ORDER BY created_at DESC LIMIT size: every result the database may give; rows
\* that share a created_at come in an order of its choosing
ListQuery(rows, lastID, size) ==
    LET scope == CursorScope(rows, lastID)
        n == IF Cardinality(scope) <= size THEN Cardinality(scope) ELSE size
    IN { page \in [ 1..n -> scope ] :
           /\ \A i \in 1..n, j \in 1..n : i < j =>
                 /\ page[i] # page[j]
                 /\ rows[page[i]].CreatedAt >= rows[page[j]].CreatedAt
           /\ \A i \in 1..n, k \in scope :
                 (\A j \in 1..n : page[j] # k) => rows[k].CreatedAt <= rows[page[i]].CreatedAt }

\* the last_id a caller sends for its next page: the last record of the page before
NextLastID ==
    IF listing.pages = << >> THEN NoLastID
    ELSE LET last == listing.pages[Len(listing.pages)] IN last[Len(last)]

\* one call of the list operation by a caller that pages until a page comes back empty
FetchPage(op) ==
    /\ listing.op = op
    /\ ~listing.done
    /\ \E page \in ListQuery(table, NextLastID, listing.size) :
         listing' = [ listing EXCEPT !.pages = Append(@, page), !.done = (page = << >>) ]
    /\ UNCHANGED << conversations, messageRows, attachments, nextRequest, result, pc,
                    turn, messages, events, closed, round, llmLog, toolLog, faults,
                    table, mcpVars, caller >>

GetChatMessageListPage == FetchPage("GetChatMessageList")

GetConversationListPage == FetchPage("GetConversationList")

PageSizes == 1..2

InitPage ==
    /\ EngineInit
    /\ table \in Tables
    /\ listing \in [ op : { "GetChatMessageList", "GetConversationList" },
                      size : PageSizes, pages : { << >> }, done : { FALSE } ]
    /\ mcpStore = SavedMcpStore
    /\ mcpEnv = LiveMcpEnv

NextPage ==
    \/ GetChatMessageListPage
    \/ GetConversationListPage

SpecPage == InitPage /\ [][NextPage]_vars

----------------------------------------------------------------------------
(* CreateConversation called on its own: the title derived from a user       *)
(* message, for messages with and without the /no_think directive and for    *)
(* titles derived before                                                     *)

\* the service method: derive the title, write the row; ok: the write succeeds
CreateConversationCall(agent, serviceUser, userMessage, ok) ==
    /\ FreeConvIds # {}
    /\ conversations' =
         IF ok
         THEN [ conversations EXCEPT
                  ![NewConvId] = CreateConversation(agent, serviceUser, userMessage) ]
         ELSE conversations
    /\ result' = Result("CreateConversation", ok,
                        IF ok THEN "" ELSE "create conversation failed", "",
                        IF ok THEN NewConvId ELSE 0)
    /\ UNCHANGED << messageRows, attachments, nextRequest, pc, turn, messages, events,
                    closed, round, llmLog, toolLog, faults, listVars, mcpVars, caller >>

\* user messages: plain, the directive and a word, the directive run into a word,
\* the directive twice, the directive alone, and the empty message
DirectiveMessages ==
    { Hi,
      NoThinkPrefix \o << " " >> \o Hi,
      NoThinkPrefix \o Hi,
      NoThinkPrefix \o NoThinkPrefix \o << " " >> \o Hi,
      NoThinkPrefix,
      << >> }

\* what a caller may pass as user message: one of the messages, or a title that
\* an earlier call derived
TitleInputs ==
    DirectiveMessages
    \cup { conversations[c].Title : c \in { d \in ConvIds : conversations[d].st = "live" } }

NextTitle ==
    \E a \in Agents, u \in ServiceUsers, m \in TitleInputs, ok \in BOOLEAN :
        CreateConversationCall(a, u, m, ok)

SpecTitle == Init /\ [][NextTitle]_vars

----------------------------------------------------------------------------
(* Tool resolution and routing: one blocking turn of the owner for every     *)
(* enabling of the saved tools and every state of the live servers, against  *)
(* an LLM that calls a tool of the resolved list or answers                  *)

\* the agent's enabling rows: any for k1, a row for k2, enabled or none for k3
McpStores ==
    { [ enabled |-> e ] :
        e \in { f \in [ SavedToolIds -> EnablingStates ] :
                  f.k2 # "absent" /\ f.k3 # "disabled" } }

\* the live servers: s1 in every status reporting any of its tools, s2 up or
\* unreachable reporting its tool or none
McpEnvs ==
    [ queryOk : BOOLEAN,
      lostTools : { {}, { "k1" } },
      status : { f \in [ McpServerConfigs -> ServerStatuses ] :
                   f.s2 \in { "up", "connect_error" } },
      reports : { f \in [ McpServerConfigs -> SUBSET { ToolT, ToolW } ] :
                    f.s2 \subseteq { ToolT } } ]

InitTools ==
    /\ EngineInit
    /\ table = << >>
    /\ listing = NoListing
    /\ mcpStore \in McpStores
    /\ mcpEnv \in McpEnvs

\* the LLM answers, or in the first round calls one tool of the list it was given
ToolsResponseVocabulary ==
    { Response(<< "a" >>, << >>, "stop") }
    \cup { Response(<< >>, << ToolCall("tc1", "function", tool.Name, << "{", "}" >>) >>,
                     "tool_calls") :
             tool \in IF round.no = 1 THEN turn.tools ELSE {} }

NextTools ==
    \/ \E usedInternal \in SUBSET InternalToolNames, ok1, ok2 \in BOOLEAN :
         pc = "idle" /\ UserSendMessage("agentA", "u1", Hi, NilID, FALSE, {}, usedInternal,
                                        ok1, ok2)
    \/ \E r \in ToolsResponseVocabulary : StartRound("openai_chat_completions_api", TRUE, r)
    \/ NextToolCall
    \/ \E mcp \in McpOutcomes : InvokeTool(mcp)
    \/ EmitToolResult
    \/ Continue(TRUE)
    \/ ClosePipe

SpecTools == InitTools /\ [][NextTools]_vars

----------------------------------------------------------------------------
(* Cancellation: one streaming turn whose HTTP consumer may go away.  The    *)
(* handler reads the pipe in c.Stream and stops when the client is gone; the *)
(* request context, which the goroutine uses for the store, the LLM client   *)
(* and the MCP client, is then cancelled, and nobody closes the read side of *)
(* the pipe.  io.Pipe has no buffer: pw.Write returns when the reader has    *)
(* taken the frame, so the frames of events are frames the consumer has read *)
(* and a write made after the consumer has gone never returns.               *)

Reading == caller = "reading"

Cancelled == caller = "gone"

\* the client disconnects while the turn is in flight
Cancel ==
    /\ Reading
    /\ pc \notin { "idle", "done" }
    /\ caller' = "gone"
    /\ UNCHANGED << conversations, messageRows, attachments, nextRequest, result, pc,
                    turn, messages, events, closed, round, llmLog, toolLog, faults,
                    listVars, mcpVars >>

\* the goroutine enters a pw.Write that never returns
BlockInWrite ==
    /\ pc' = "blocked"
    /\ UNCHANGED << conversations, messageRows, attachments, nextRequest, result,
                    turn, messages, events, closed, round, llmLog, toolLog, faults,
                    listVars, mcpVars, caller >>

\* start of a round under a cancelled context: llmRepo.GetByID(ctx) fails, the
\* goroutine writes the error frame
CancelledStartRound ==
    /\ Cancelled
    /\ pc = "start"
    /\ BlockInWrite

\* the receive loop under a cancelled context: a chunk read before the
\* cancellation is still delivered and its answer_delta is written, or
\* stream.Recv returns the context's error, which is logged before the next Recv
CancelledRecv ==
    /\ Cancelled
    /\ pc = "recv"
    /\ \/ BlockInWrite
       \/ /\ pc' = "polling"
          /\ UNCHANGED << conversations, messageRows, attachments, nextRequest, result,
                          turn, messages, events, closed, round, llmLog, toolLog, faults,
                          listVars, mcpVars, caller >>

\* the tool loop under a cancelled context: the tool_call frame of the next tool
\* call; the function_call write fails, then the tool_call_processing frame; the
\* function_call_output write fails, then the tool_call_end frame
CancelledToolStep ==
    /\ Cancelled
    /\ \/ pc = "dispatch" /\ round.todoIds # {}
       \/ pc = "save_call"
       \/ pc = "save_output"
    /\ BlockInWrite

\* callTool under a cancelled context: GetByConfigID(ctx) fails for an MCP tool
CancelledInvokeTool ==
    /\ Cancelled
    /\ InvokeTool("config_error")

\* every step of the goroutine
ProducerStep ==
    \/ Reading /\ \E up \in BOOLEAN :
                     StartRound("openai_chat_completions_api", up, Response(<< >>, << >>, ""))
    \/ Reading /\ \E ch \in StreamVocabulary : RecvChunk(ch, TRUE)
    \/ RecvEOF
    \/ Reading /\ NextToolCall
    \/ Reading /\ SaveFunctionCall(TRUE)
    \/ Reading /\ \E mcp \in McpOutcomes : InvokeTool(mcp)
    \/ Reading /\ SaveFunctionCallOutput(TRUE)
    \/ Continue(TRUE)
    \/ ClosePipe
    \/ CancelledStartRound
    \/ CancelledRecv
    \/ CancelledToolStep
    \/ CancelledInvokeTool

NextCancel ==
    \/ pc = "idle" /\ UserSendMessage("agentA", "u1", Hi, NilID, TRUE, {}, {}, TRUE, TRUE)
    \/ Cancel
    \/ ProducerStep

\* the goroutine is scheduled as long as it can take a step
SpecCancel == Init /\ [][NextCancel]_vars /\ WF_vars(ProducerStep)

----------------------------------------------------------------------------
(* Termination of the turn loop: one turn, streaming or blocking, whose      *)
(* store writes succeed, with every outcome of the configuration, the LLM    *)
(* call and the tools, against an LLM that returns tool calls in every round *)
(* but the last one the model follows                                        *)

\* every step of the goroutine of aiProcessStreamable / aiProcess
GoroutineStep ==
    \/ \E cfg \in ConfigOutcomes, up \in BOOLEAN, r \in ResponseVocabulary :
         StartRound(cfg, up, r)
    \/ \E ch \in StreamVocabulary : RecvChunk(ch, TRUE)
    \/ RecvError
    \/ RecvEOF
    \/ NextToolCall
    \/ SaveFunctionCall(TRUE)
    \/ \E mcp \in McpOutcomes : InvokeTool(mcp)
    \/ SaveFunctionCallOutput(TRUE)
    \/ EmitToolResult
    \/ Continue(TRUE)
    \/ ClosePipe

NextRounds ==
    \/ \E s \in BOOLEAN :
         pc = "idle" /\ UserSendMessage("agentA", "u1", Hi, NilID, s, {}, {}, TRUE, TRUE)
    \/ GoroutineStep

\* the goroutine is scheduled as long as it can take a step, and its consumer
\* reads every frame
SpecRounds == Init /\ [][NextRounds]_vars /\ WF_vars(GoroutineStep)

----------------------------------------------------------------------------
(* Conversations that are used again: two requests, of UserSendMessage or    *)
(* UserSendMessagePredefinedAnswer, streaming or blocking, by any agent and  *)
(* any service user, each with no conversation id or the id of a stored      *)
(* conversation; store writes succeed, and the LLM answers or, in the first  *)
(* round, calls one tool                                                     *)

ReuseChunks ==
    { Chunk(<< >>, << "a" >>, ""), Chunk(<< >>, << >>, "stop") }
    \cup (IF LastRound THEN {}
          ELSE { Chunk(<< ToolCall("tc2", "function", InternalToolName, << "{", "}" >>) >>,
                       << >>, "") })

ReuseResponses ==
    { Response(<< "a" >>, << >>, "stop") }
    \cup (IF LastRound THEN {}
          ELSE { Response(<< >>, << ToolCall("tc1", "function", McpToolName, << "{", "}" >>) >>,
                          "tool_calls") })

ReuseConvIds == { NilID } \cup { ToString(c) : c \in ConvIds }

NextReuse ==
    \/ \E a \in Agents, u \in ServiceUsers, m \in UserMessages, c \in ReuseConvIds,
          s \in BOOLEAN :
         UserSendMessage(a, u, m, c, s, {}, {}, TRUE, TRUE)
    \/ \E a \in Agents, u \in ServiceUsers, c \in ReuseConvIds, s \in BOOLEAN :
         UserSendMessagePredefinedAnswer(a, u, Hi, << "O" >>, c, s, TRUE, TRUE, TRUE)
    \/ PredefinedEmit
    \/ \E r \in ReuseResponses : StartRound("openai_chat_completions_api", TRUE, r)
    \/ \E ch \in ReuseChunks : RecvChunk(ch, TRUE)
    \/ RecvEOF
    \/ NextToolCall
    \/ SaveFunctionCall(TRUE)
    \/ InvokeTool("ok")
    \/ SaveFunctionCallOutput(TRUE)
    \/ EmitToolResult
    \/ Continue(TRUE)
    \/ ClosePipe

SpecReuse == Init /\ [][NextReuse]_vars

----------------------------------------------------------------------------
(* DeleteConversation against a turn in flight: one turn of the owner,       *)
(* streaming or blocking, and the owner's DeleteConversation for the turn's  *)
(* conversation, served by another request goroutine at any point of the     *)
(* turn; store writes succeed                                                *)

NextDelete ==
    \/ \E s \in BOOLEAN :
         pc = "idle" /\ UserSendMessage("agentA", "u1", Hi, NilID, s, {}, {}, TRUE, TRUE)
    \/ \E c \in ConvIds :
         DeleteConversation("agentA", "u1", ToString(c), TRUE, TRUE, TRUE, {}, {})
    \/ \E r \in ReuseResponses : StartRound("openai_chat_completions_api", TRUE, r)
    \/ \E ch \in ReuseChunks : RecvChunk(ch, TRUE)
    \/ RecvEOF
    \/ NextToolCall
    \/ SaveFunctionCall(TRUE)
    \/ InvokeTool("ok")
    \/ SaveFunctionCallOutput(TRUE)
    \/ EmitToolResult
    \/ Continue(TRUE)
    \/ ClosePipe

SpecDelete == Init /\ [][NextDelete]_vars

----------------------------------------------------------------------------
(* The Tool Invoker against an LLM that names any tool: one turn of agentA,  *)
(* streaming or blocking, for every enabling of the saved tools, whose LLM   *)
(* returns in the first round one tool call with a name of its choosing      *)

\* names an LLM may return: the saved tools of the application's servers, a
\* tool of a configuration of another application, an internal tool
InvokableNames ==
    { ShortUUID(SavedTools[k].ApplicationMcpServerConfigID) \o CompositeKeyDelimiter
        \o SavedTools[k].Name : k \in { "k1", "k3" } }
    \cup { ForeignMcpConfig \o CompositeKeyDelimiter \o ToolT, InternalToolName }

InvokeChunks ==
    { Chunk(<< >>, << "a" >>, ""), Chunk(<< >>, << >>, "stop") }
    \cup (IF LastRound THEN {}
          ELSE { Chunk(<< ToolCall("tc1", "function", n, << "{", "}" >>) >>, << >>, "") :
                   n \in InvokableNames })

InvokeResponses ==
    { Response(<< "a" >>, << >>, "stop") }
    \cup (IF LastRound THEN {}
          ELSE { Response(<< >>, << ToolCall("tc1", "function", n, << "{", "}" >>) >>,
                          "tool_calls") : n \in InvokableNames })

InitInvoke ==
    /\ EngineInit
    /\ table = << >>
    /\ listing = NoListing
    /\ mcpStore \in McpStores
    /\ mcpEnv = LiveMcpEnv

NextInvoke ==
    \/ \E s \in BOOLEAN :
         pc = "idle" /\ UserSendMessage("agentA", "u1", Hi, NilID, s, {}, {}, TRUE, TRUE)
    \/ \E r \in InvokeResponses : StartRound("openai_chat_completions_api", TRUE, r)
    \/ \E ch \in InvokeChunks : RecvChunk(ch, TRUE)
    \/ RecvEOF
    \/ NextToolCall
    \/ SaveFunctionCall(TRUE)
    \/ \E mcp \in McpOutcomes : InvokeTool(mcp)
    \/ SaveFunctionCallOutput(TRUE)
    \/ EmitToolResult
    \/ Continue(TRUE)
    \/ ClosePipe

SpecInvoke == InitInvoke /\ [][NextInvoke]_vars

----------------------------------------------------------------------------
(* Properties of the turn engine, checked under Spec *)

HasEvent(type) == \E i \in DOMAIN events : events[i].MessageType = type

EventsOfType(type) == SelectSeq(events, LAMBDA e : e.MessageType = type)

\* the stored rows of the turn's request id, in creation order
RowsOfTurn == SelectSeq(messageRows, LAMBDA r : r.RequestID = turn.req)

RowKind(r) == IF r.Type = "message" THEN r.Role ELSE r.Type

CountRows(kind) == Len(SelectSeq(RowsOfTurn, LAMBDA r : RowKind(r) = kind))

LlmTurn == turn.mode \in { "stream", "block" }

\* a turn of UserSendMessage that has ended, with no error frame, no failed store
\* write, and a last LLM call that ended with a finish reason
CompletedCleanly ==
    /\ pc = "done"
    /\ LlmTurn
    /\ ~HasEvent("error")
    /\ faults = 0
    /\ round.finishReason # ""

\* C1: a turn that completes without an error event has stored, under its request
\* id, exactly one user message row, one function_call row and one
\* function_call_output row per tool invocation, and exactly one assistant
\* message row
C1_TraceComplete ==
    CompletedCleanly =>
        /\ CountRows("user") = 1
        /\ CountRows("function_call") = Len(toolLog)
        /\ CountRows("function_call_output") = Len(toolLog)
        /\ CountRows("assistant") = 1

\* a blocking turn that called one tool and then answered has stored no row for
\* the invocation
C1_BlockingTurnWithoutToolRows ==
    /\ CompletedCleanly
    /\ turn.mode = "block"
    /\ Len(toolLog) = 1
    /\ HasEvent("answer")
    /\ CountRows("function_call") = 0
    /\ CountRows("function_call_output") = 0
    /\ CountRows("assistant") = 1

RECURSIVE CallPairs(_)
\* rows are function_call / function_call_output pairs, each pair of one call
CallPairs(rows) ==
    \/ rows = << >>
    \/ /\ Len(rows) >= 2
       /\ RowKind(rows[1]) = "function_call"
       /\ RowKind(rows[2]) = "function_call_output"
       /\ rows[1].FunctionCallID = rows[2].FunctionCallID
       /\ CallPairs(SubSeq(rows, 3, Len(rows)))

CausalRows(rows) ==
    /\ Len(rows) >= 2
    /\ RowKind(rows[1]) = "user"
    /\ RowKind(rows[Len(rows)]) = "assistant"
    /\ CallPairs(SubSeq(rows, 2, Len(rows) - 1))

ToolEventTypes == { "tool_call", "tool_call_processing", "tool_call_end" }

RECURSIVE CallTriples(_)
\* frames are tool_call, tool_call_processing, tool_call_end triples of one call
CallTriples(frames) ==
    \/ frames = << >>
    \/ /\ Len(frames) >= 3
       /\ frames[1].MessageType = "tool_call"
       /\ frames[2].MessageType = "tool_call_processing"
       /\ frames[3].MessageType = "tool_call_end"
       /\ frames[1].Content = frames[2].Content
       /\ frames[2].Content = frames[3].Content
       /\ CallTriples(SubSeq(frames, 4, Len(frames)))

\* C2: within one request id the rows are created in the order user message,
\* then per tool call its function_call row and its function_call_output row,
\* then the assistant message; the frames follow the same order, each tool call
\* giving tool_call, tool_call_processing, tool_call_end without interleaving,
\* one triple per invocation, before the answer
C2_CausalOrder ==
    CompletedCleanly =>
        /\ CausalRows(RowsOfTurn)
        /\ LET frames == SelectSeq(events, LAMBDA e : e.MessageType \in ToolEventTypes)
           IN /\ CallTriples(frames)
              /\ Len(frames) = 3 * Len(toolLog)
        /\ events[Len(events)].MessageType = "answer"

\* a blocking turn that called one tool has announced it with tool_call and
\* tool_result frames only
C2_BlockingTurnFrames ==
    /\ CompletedCleanly
    /\ turn.mode = "block"
    /\ Len(toolLog) = 1
    /\ [ i \in DOMAIN events |-> events[i].MessageType ]
         = << "tool_call", "tool_result", "answer" >>

\* the text of all answer_delta frames of the turn, in emission order
DeltaText ==
    LET deltas == EventsOfType("answer_delta")
    IN Flatten([ i \in DOMAIN deltas |-> deltas[i].Content ])

\* C3: for a streaming turn the contents of all answer_delta frames, joined in
\* emission order across the rounds, equal the content of the answer frame
C3_DeltasMakeAnswer ==
    (pc = "done" /\ turn.mode = "stream" /\ ~HasEvent("error")) =>
        \A i \in DOMAIN events :
            events[i].MessageType = "answer" => events[i].Content = DeltaText

\* a streaming turn whose first round streamed text before its tool call: the
\* answer frame of the second round leaves that text out
C3_AnswerDropsEarlierRound ==
    /\ pc = "done"
    /\ turn.mode = "stream"
    /\ ~HasEvent("error")
    /\ round.no = 2
    /\ Len(toolLog) = 1
    /\ Len(EventsOfType("answer")) = 1
    /\ events[Len(events)].MessageType = "answer"
    /\ DeltaText = << "a" >>
    /\ events[Len(events)].Content = << >>

\* C4: a turn that ends without an error event has emitted exactly one answer
\* frame and that frame is the last of the stream, whatever the finish reason of
\* the LLM call that made no tool call
C4_OneTerminalAnswer ==
    (pc = "done" /\ LlmTurn /\ ~HasEvent("error") /\ round.finishReason # "") =>
        /\ Len(EventsOfType("answer")) = 1
        /\ events[Len(events)].MessageType = "answer"

\* a streaming turn whose only LLM call made no tool call and ended with the
\* finish reason "length": the stream closes with neither answer nor error
C4_LengthFinishWithoutAnswer ==
    /\ pc = "done"
    /\ closed
    /\ turn.mode = "stream"
    /\ round.no = 1
    /\ round.finishReason = "length"
    /\ toolLog = << >>
    /\ DeltaText = << "a" >>
    /\ ~HasEvent("answer")
    /\ ~HasEvent("error")

\* C5: once an error frame has been written for a turn, no further frame is
\* written, no further LLM call is made and no tool is invoked, in whichever
\* round the error arose; the goroutine is at its exit and the pipe is closed
\* when it has ended
C5_ErrorIsTerminal ==
    /\ [](HasEvent("error") => /\ pc \in { "close", "done" }
                               /\ (pc = "done" => closed)
                               /\ Len(EventsOfType("error")) = 1
                               /\ events[Len(events)].MessageType = "error")
    /\ [][(HasEvent("error") /\ turn' = turn) =>
            /\ events' = events
            /\ llmLog' = llmLog
            /\ toolLog' = toolLog
            /\ pc' = "done"
            /\ closed']_vars

\* an error that arose in a recursive continuation, after a tool was invoked
C5_ErrorInContinuation ==
    /\ HasEvent("error")
    /\ round.no = 2
    /\ Len(toolLog) >= 1
    /\ Len(events) > 1
    /\ pc = "done"
    /\ closed

\* the tool-role messages an LLM call of the turn was given for a tool call
ToolMessagesFor(callId) ==
    { m \in UNION { { llmLog[j][i] : i \in DOMAIN llmLog[j] } : j \in DOMAIN llmLog } :
        m.Role = "tool" /\ m.ToolCallID = callId }

\* C6: a tool invocation that fails gives the failure text as its result: a
\* function_call_output row is stored for it and a further LLM call receives
\* the failure text as the tool-role message of that call
C6_ToolFailureIsolated ==
    (pc = "done" /\ LlmTurn /\ ~HasEvent("error") /\ faults = 0) =>
        \A k \in DOMAIN toolLog :
            toolLog[k].outcome.err # "" =>
                \E m \in ToolMessagesFor(toolLog[k].call.ID) :
                    /\ m.Content # << >>
                    /\ \E i \in DOMAIN RowsOfTurn :
                         /\ RowKind(RowsOfTurn[i]) = "function_call_output"
                         /\ RowsOfTurn[i].FunctionCallID = toolLog[k].call.ID
                         /\ RowsOfTurn[i].FunctionCallOutput = m.Content

\* a blocking turn whose tool call failed and whose second LLM call answered:
\* the failure text reached the LLM, no row holds it
C6_BlockingFailureWithoutRow ==
    /\ pc = "done"
    /\ turn.mode = "block"
    /\ ~HasEvent("error")
    /\ faults = 0
    /\ Len(toolLog) = 1
    /\ toolLog[1].outcome.err # ""
    /\ Len(llmLog) = 2
    /\ ToolMessagesFor(toolLog[1].call.ID) # {}
    /\ CountRows("function_call_output") = 0

\* C7: a chunk that continues a tool call already begun, whether it repeats the
\* id or leaves it empty, keeps the id, type and name of the call and appends
\* its argument fragment to the arguments gathered so far
C7_FragmentsAppend ==
    [][\A chunk \in ToolChunks :
         LET fragment == chunk.ToolCalls[1]
             id == IF fragment.ID # "" THEN fragment.ID ELSE round.currentToolCallID
         IN (/\ pc = "recv"
             /\ id \in DOMAIN round.finalToolCalls
             /\ RecvChunk(chunk, TRUE)) =>
                round'.finalToolCalls[id] =
                    [ round.finalToolCalls[id] EXCEPT !.Arguments = @ \o fragment.Arguments ]
      ]_vars

\* the call tc1 after a first chunk with the arguments "{" and a chunk that
\* repeats the id with the arguments "}"
C7_RepeatedIdRestartsCall ==
    /\ pc = "recv"
    /\ turn.mode = "stream"
    /\ round.chunks = 2
    /\ DOMAIN round.finalToolCalls = { "tc1" }
    /\ round.finalToolCalls["tc1"] = ToolCall("tc1", "", << >>, << "}" >>)

PredefinedTurn == turn.mode \in { "predefined", "predefined_stream" }

\* the frames the predefined path is to write for an answer
PredefinedFrames(answer, streamable) ==
    (IF streamable
     THEN [ i \in 1..Len(answer) |->
              Event(ToString(turn.conv), turn.req, "answer_delta", << answer[i] >>) ]
     ELSE << >>)
    \o << Event(ToString(turn.conv), turn.req, "answer", answer) >>

\* C8: the predefined path calls neither the LLM nor a tool, stores the user
\* message and then the answer as assistant message under one request id, and
\* writes one answer_delta per character followed by one answer frame with the
\* whole answer when streaming, one answer frame alone otherwise
C8_PredefinedReplay ==
    PredefinedTurn =>
        LET frames == PredefinedFrames(turn.answer, turn.mode = "predefined_stream")
        IN /\ llmLog = << >>
           /\ toolLog = << >>
           /\ Len(RowsOfTurn) = 2
           /\ RowKind(RowsOfTurn[1]) = "user"
           /\ RowKind(RowsOfTurn[2]) = "assistant"
           /\ RowsOfTurn[2].Content = turn.answer
           /\ Len(events) <= Len(frames)
           /\ events = SubSeq(frames, 1, Len(events))
           /\ pc = "done" => events = frames /\ closed

\* the answer "OK" replayed in streaming mode: two deltas, then the answer
C8_StreamedOK ==
    /\ turn.mode = "predefined_stream"
    /\ turn.answer = << "O", "K" >>
    /\ pc = "done"
    /\ [ i \in DOMAIN events |-> events[i].MessageType ]
         = << "answer_delta", "answer_delta", "answer" >>
    /\ [ i \in DOMAIN events |-> events[i].Content ]
         = << << "O" >>, << "K" >>, << "O", "K" >> >>

----------------------------------------------------------------------------
(* Properties of conversation management, checked under SpecConv *)

\* a step that is a call of UserSendMessage (a call that fails as the call
\* before it did changes nothing and is no step)
SendStep ==
    /\ result'.op = "UserSendMessage"
    /\ result' # result \/ nextRequest' # nextRequest

\* the request's id names a stored conversation that is not deleted
Resolves(reqConv) ==
    /\ UuidParseOk(reqConv)
    /\ conversations[UuidParse(reqConv)].st = "live"

\* the step has put the turn into the conversation the request named
ReusedStep ==
    /\ conversations' = conversations
    /\ turn'.conv = UuidParse(result'.reqConv)

\* the step has created a conversation titled with the filtered user message
\* and put the turn into it
CreatedStep ==
    \E n \in ConvIds :
        /\ conversations[n].st = "none"
        /\ conversations'[n].st = "live"
        /\ conversations'[n].Title
             = FilterUserMessage(messageRows'[Len(messageRows')].Content)
        /\ \A o \in ConvIds \ {n} : conversations'[o] = conversations[o]
        /\ turn'.conv = n
        /\ messageRows'[Len(messageRows')].ConversationID = n

TurnStarted ==
    /\ result'.ok
    /\ pc' = "start"
    /\ turn'.req = nextRequest'
    /\ Len(messageRows') = Len(messageRows) + 1

StoreErrors ==
    { "create conversation failed", "get history failed", "save user message failed" }

\* C9 as stated: UserSendMessage fails only when the store fails; with no id, an
\* empty id, an id of invalid format or an id that names no stored, non-deleted
\* conversation it creates a conversation and the turn proceeds in it, and with
\* the id of a stored, non-deleted conversation it reuses that one
C9_NeverFailsOnConversationId ==
    [][SendStep =>
         /\ ~result'.ok => result'.err \in StoreErrors
         /\ result'.ok =>
              /\ TurnStarted
              /\ IF Resolves(result'.reqConv) THEN ReusedStep ELSE CreatedStep]_vars

\* C9 amended: an id of invalid format is rejected with an error and nothing is
\* created or stored; in every other case UserSendMessage fails only when the
\* store fails, creates a conversation when the id is missing, empty or names
\* no stored, non-deleted conversation, and reuses the one the id names otherwise
C9_OnlyMalformedIdFails ==
    [][SendStep =>
         IF result'.reqConv = BadFormatID
         THEN /\ ~result'.ok
              /\ result'.err = "invalid conversation id"
              /\ UNCHANGED << conversations, messageRows, attachments, turn, pc, events >>
         ELSE /\ ~result'.ok => result'.err \in StoreErrors
              /\ result'.ok =>
                   /\ TurnStarted
                   /\ IF Resolves(result'.reqConv) THEN ReusedStep ELSE CreatedStep]_vars

\* a request that named a deleted conversation has started its turn in a new one
C9_DeletedIdStartsNewConversation ==
    /\ result.op = "UserSendMessage"
    /\ result.ok
    /\ result.reqConv = "1"
    /\ conversations[1].st = "deleted"
    /\ conversations[2].st = "live"
    /\ turn.conv = 2
    /\ pc = "start"

\* C10: DeleteConversation and RenameConversationTitle called for a stored
\* conversation by an agent or a service user other than its owner fail with an
\* authorization error and change neither the conversation nor any message or
\* attachment
C10_OwnerOnly ==
    [][\A a \in Agents, u \in ServiceUsers, c \in ManagedConvIds :
         (/\ result'.reqConv = c
          /\ Resolves(c)
          /\ \/ conversations[UuidParse(c)].ChatAgentID # a
             \/ conversations[UuidParse(c)].ServiceUserID # u
          /\ \/ DeleteConversation(a, u, c, TRUE, TRUE, TRUE, {}, {})
             \/ \E t \in Titles : RenameConversationTitle(a, u, c, t, TRUE)) =>
            /\ ~result'.ok
            /\ result'.err \in { "not allowed to delete this conversation",
                                 "not allowed to rename this conversation" }
            /\ UNCHANGED << conversations, messageRows, attachments >>]_vars

\* a delete refused for a conversation that holds a message with an attachment
C10_RefusedDelete ==
    /\ result.op = "DeleteConversation"
    /\ ~result.ok
    /\ result.err = "not allowed to delete this conversation"
    /\ result.reqConv = "1"
    /\ conversations[1].st = "live"
    /\ \E i \in DOMAIN messageRows :
         /\ messageRows[i].ConversationID = 1
         /\ ~messageRows[i].DeletedAt
         /\ \E j \in DOMAIN attachments :
              attachments[j].MessageID = i /\ ~attachments[j].DeletedAt

----------------------------------------------------------------------------
(* Properties of the list operations, checked under SpecPage *)

\* the ids of all pages fetched so far, in the order they were returned
PagedIds == Flatten(listing.pages)

\* the records one fetch without last_id and with a size no smaller than the
\* table returns
UnpaginatedRecords ==
    LET full == CHOOSE page \in ListQuery(table, NoLastID, Len(table) + 1) : TRUE
    IN { full[i] : i \in DOMAIN full }

\* C11: paging to the end with a fixed size and last_id set to the last record
\* of the page before returns the records in strictly descending creation-time
\* order, none twice and none skipped: together exactly the records of one
\* unpaginated fetch
C11_PagesMatchFullFetch ==
    listing.done =>
        /\ { PagedIds[i] : i \in DOMAIN PagedIds } = UnpaginatedRecords
        /\ \A i \in DOMAIN PagedIds, j \in DOMAIN PagedIds :
              i < j => table[PagedIds[i]].CreatedAt > table[PagedIds[j]].CreatedAt

\* two records in scope share their created_at and the page size is 1: the first
\* page returns one of them, the second page is empty, the other is never returned
C11_TiedRecordSkipped ==
    /\ listing.done
    /\ listing.size = 1
    /\ Len(table) = 2
    /\ table[1].InScope /\ table[2].InScope
    /\ table[1].CreatedAt = table[2].CreatedAt
    /\ Len(listing.pages) = 2
    /\ Len(listing.pages[1]) = 1
    /\ listing.pages[2] = << >>
    /\ UnpaginatedRecords = { 1, 2 }

----------------------------------------------------------------------------
(* Properties of CreateConversation, checked under SpecTitle *)

\* C12: the title CreateConversation derives is the user message with a leading
\* /no_think directive removed, "/no_think hi" giving "hi"; a message without
\* the directive prefix gives itself; and deriving a title from the derived
\* title returns it unchanged
C12_TitleDropsDirective ==
    [][\A a \in Agents, u \in ServiceUsers, m \in TitleInputs :
         CreateConversationCall(a, u, m, TRUE) =>
            LET title == conversations'[NewConvId].Title IN
            /\ HasPrefix(m, NoThinkPrefix \o << " " >>) => title = SliceFrom(m, NoThinkLen + 1)
            /\ ~HasPrefix(m, NoThinkPrefix) => title = m
            /\ FilterUserMessage(title) = title]_vars

\* the conversation created from the message "/no_think hi": its title keeps the
\* space that followed the directive
C12_TitleKeepsSpace ==
    /\ result.op = "CreateConversation"
    /\ result.ok
    /\ conversations[1].st = "live"
    /\ conversations[1].Title = << " " >> \o Hi
    /\ conversations[2].st = "none"

----------------------------------------------------------------------------
(* Further properties of the turn engine, checked under Spec *)

\* the user message row of the turn in flight
UserRowStored ==
    \E i \in DOMAIN messageRows :
        /\ messageRows[i].RequestID = turn.req
        /\ messageRows[i].ConversationID = turn.conv
        /\ RowKind(messageRows[i]) = "user"
        /\ messageRows[i].Content = messages[2].Content

\* C13: the user message row is stored from before the first LLM call of the turn
\* on and stays stored when an LLM call fails; when its write fails,
\* UserSendMessage returns an error, and no LLM call is made, no tool is invoked,
\* no event is emitted and no row is stored for the request
C13_UserMessageFirst ==
    /\ LlmTurn => UserRowStored
    /\ (result.op = "UserSendMessage" /\ result.err = "save user message failed") =>
          /\ ~result.ok
          /\ pc = "idle"
          /\ llmLog = << >>
          /\ toolLog = << >>
          /\ events = << >>
          /\ \A i \in DOMAIN messageRows : messageRows[i].RequestID # nextRequest

\* a turn whose first LLM call failed: the error frame is all the stream holds,
\* and the user message row is stored
C13_LlmFailedRowKept ==
    /\ pc = "done"
    /\ LlmTurn
    /\ Len(llmLog) = 1
    /\ toolLog = << >>
    /\ Len(events) = 1
    /\ events[1].MessageType = "error"
    /\ events[1].Content = << "AI process error" >>
    /\ UserRowStored
    /\ CountRows("user") = 1

\* the stored rows of the turn of one kind, in creation order
RowsOfKind(kind) == SelectSeq(RowsOfTurn, LAMBDA r : RowKind(r) = kind)

\* every frame of the given type has its row: the k-th frame is matched by the
\* k-th stored row of the kind, which in streaming mode carries the frame's tool name
RowsCoverEvents(type, kind) ==
    LET frames == EventsOfType(type)
        rows == RowsOfKind(kind)
    IN /\ Len(rows) >= Len(frames)
       /\ \A k \in DOMAIN frames :
             turn.mode = "stream" => rows[k].FunctionCallName = frames[k].Content

\* C14: a store write is durable before its event is emitted: when a tool_call
\* frame has been written the function_call row of that call is stored, when a
\* tool_call_end frame has been written the function_call_output row of that
\* call is stored, and the user message row is stored before any frame of the
\* turn is written (in turns none of whose store writes failed)
C14_StoredBeforeEmitted ==
    (LlmTurn /\ faults = 0) =>
        /\ RowsCoverEvents("tool_call", "function_call")
        /\ RowsCoverEvents("tool_call_end", "function_call_output")
        /\ events # << >> => UserRowStored

\* a streaming turn that has written the tool_call frame of its first tool call
\* and not yet stored the function_call row
C14_AnnouncedBeforeStored ==
    /\ turn.mode = "stream"
    /\ pc = "save_call"
    /\ faults = 0
    /\ Len(EventsOfType("tool_call")) = 1
    /\ events[Len(events)].MessageType = "tool_call"
    /\ events[Len(events)].Content = round.toolCall.Name
    /\ CountRows("function_call") = 0
    /\ UserRowStored

\* the last frame of the stream after the step
LastEventType == events[Len(events)].MessageType

\* C15: a failed store write of a function_call, function_call_output or final
\* assistant row does not abort the turn: the step that failed writes the same
\* frame and goes on to the same place as after a successful write (the tool is
\* invoked, the remaining tool calls and the recursion follow, the answer frame
\* is delivered) and no error frame is written for it
C15_WriteFailureTolerated ==
    [][(turn' = turn /\ faults' = faults + 1) =>
         /\ messageRows' = messageRows
         /\ Len(events') = Len(events) + (IF pc = "recv" /\ round'.answerFullContent # round.answerFullContent THEN 2 ELSE 1)
         /\ LastEventType' # "error"
         /\ EventsOfType("error")' = EventsOfType("error")
         /\ pc = "save_call" =>
               /\ LastEventType' = "tool_call_processing"
               /\ pc' = "invoke"
         /\ pc = "save_output" =>
               /\ LastEventType' = "tool_call_end"
               /\ messages' = WithToolMessages(messages, round.toolCall, round.toolResult)
               /\ pc' = "dispatch"
               /\ round'.todoIds = round.todoIds
               /\ round'.isNeedAiProcessContinue
         /\ pc = "recv" =>
               /\ LastEventType' = "answer"
               /\ events'[Len(events')].Content = round'.answerFullContent
               /\ pc' = "dispatch"
         /\ pc = "dispatch" =>
               /\ LastEventType' = "answer"
               /\ events'[Len(events')].Content = round.response
               /\ pc' = "close"
         /\ pc \in { "save_call", "save_output", "recv", "dispatch" }]_vars

\* a streaming turn whose function_call write failed: the tool was invoked all
\* the same, the continuation ran and the answer frame closed the stream
C15_AnswerAfterFailedWrite ==
    /\ pc = "done"
    /\ turn.mode = "stream"
    /\ faults = 1
    /\ round.no = 2
    /\ Len(toolLog) = 1
    /\ CountRows("function_call") = 0
    /\ CountRows("function_call_output") = 1
    /\ ~HasEvent("error")
    /\ LastEventType = "answer"

\* the provider type tags other than the OpenAI-compatible chat-completions tag
UnsupportedProviderTypes == LlmProviderTypes \ { "openai_chat_completions_api" }

\* C16: with a provider whose type tag is not the OpenAI-compatible
\* chat-completions tag (a tag known as unimplemented, or an unknown tag) the
\* backend selection fails: the round writes an error frame and ends, and no LLM
\* call is made
C16_UnsupportedProviderFails ==
    [][\A cfg \in UnsupportedProviderTypes, up \in BOOLEAN, r \in ResponseVocabulary :
         StartRound(cfg, up, r) =>
            /\ LastEventType' = "error"
            /\ events'[Len(events')].Content = << "create AI client failed" >>
            /\ Len(events') = Len(events) + 1
            /\ llmLog' = llmLog
            /\ pc' = "close"]_vars

----------------------------------------------------------------------------
(* Properties of tool resolution and routing, checked under SpecTools *)

ConfigOf(k) == SavedTools[k].ApplicationMcpServerConfigID

\* the catalog entry of a saved tool: {shortConfigID}_____{toolName}
CatalogTool(k) ==
    [ Type |-> "function",
      Name |-> ShortUUID(ConfigOf(k)) \o CompositeKeyDelimiter \o SavedTools[k].Name ]

InternalTool(n) == [ Type |-> "function", Name |-> InternalToolPrefix \o n ]

\* the server of the tool answered with a tool list
ServerUp(k) == mcpEnv.status[ConfigOf(k)] = "up"

\* the tool is enabled for the agent, its row loads, and its live server reports it
Available(k) ==
    /\ mcpStore.enabled[k] = "enabled"
    /\ k \notin mcpEnv.lostTools
    /\ ServerUp(k)
    /\ SavedTools[k].Name \in mcpEnv.reports[ConfigOf(k)]

\* C17: a server whose configuration cannot be loaded, that cannot be connected
\* to, fails the handshake or the ping, or cannot list its tools only loses its
\* own tools: the available tools of every other server and every internal
\* tool the request names are in the turn's list; and when the resolution as a
\* whole returns an error the turn proceeds with an empty list: UserSendMessage
\* never fails because of tool resolution
C17_FailuresOnlyOmit ==
    /\ LlmTurn =>
          IF ~mcpEnv.queryOk
          THEN turn.tools = {}
          ELSE /\ \A n \in turn.usedInternalToolList : InternalTool(n) \in turn.tools
               /\ \A k \in SavedToolIds :
                     /\ Available(k) => CatalogTool(k) \in turn.tools
                     /\ ~ServerUp(k) => CatalogTool(k) \notin turn.tools
    /\ (result.op = "UserSendMessage" /\ ~result.ok) => result.err \in StoreErrors

\* server s1 fails its handshake while s2 is up: the turn's list holds the tool
\* of s2 and the internal tool, and none of s1
C17_OneServerDown ==
    /\ LlmTurn
    /\ mcpEnv.queryOk
    /\ mcpEnv.status.s1 = "handshake_error"
    /\ mcpEnv.status.s2 = "up"
    /\ mcpStore.enabled.k1 = "enabled"
    /\ ToolT \in mcpEnv.reports.s1
    /\ turn.usedInternalToolList = { << "x" >> }
    /\ turn.tools = { CatalogTool("k3"), InternalTool(<< "x" >>) }

\* the MCP tools of the turn's list
McpToolsOfTurn == { tool \in turn.tools : ~HasPrefix(tool.Name, InternalToolPrefix) }

\* C18: every MCP tool of the resolved list is enabled for the agent and
\* reported, by name, by its live server; a tool enabled in the saved
\* configuration that the server no longer reports is absent, and a tool the
\* server reports that is not enabled for the agent is absent
C18_EnabledAndReported ==
    LlmTurn =>
        /\ \A tool \in McpToolsOfTurn :
              \E k \in SavedToolIds :
                  /\ tool = CatalogTool(k)
                  /\ mcpStore.enabled[k] = "enabled"
                  /\ ServerUp(k)
                  /\ SavedTools[k].Name \in mcpEnv.reports[ConfigOf(k)]
        /\ \A k \in SavedToolIds :
              (\/ mcpStore.enabled[k] # "enabled"
               \/ SavedTools[k].Name \notin mcpEnv.reports[ConfigOf(k)]) =>
                  CatalogTool(k) \notin turn.tools

\* k1 is enabled and no longer reported by s1, k2 is reported by s1 and not
\* enabled, k3 is enabled and reported by s2: the list holds k3 alone
C18_StaleAndDisabledDropped ==
    /\ LlmTurn
    /\ mcpEnv.queryOk
    /\ mcpEnv.lostTools = {}
    /\ mcpEnv.status.s1 = "up" /\ mcpEnv.status.s2 = "up"
    /\ mcpStore.enabled.k1 = "enabled" /\ mcpEnv.reports.s1 = { ToolW }
    /\ mcpStore.enabled.k2 = "disabled"
    /\ mcpStore.enabled.k3 = "enabled" /\ mcpEnv.reports.s2 = { ToolT }
    /\ turn.tools = { CatalogTool("k3") }

\* C19: the name the catalog emits for a tool of a configuration is routed by
\* the Tool Invoker to exactly that configuration and that tool name and never
\* to the internal-tool handler; a name with the prefix __lai__ is routed to the
\* internal-tool handler
C19_CompositeKeyRoundTrip ==
    \A i \in DOMAIN toolLog :
        /\ \A k \in SavedToolIds :
              toolLog[i].call.Name = CatalogTool(k).Name =>
                  /\ toolLog[i].outcome.backend # "internal"
                  /\ toolLog[i].outcome.err \notin { "invalid tool name format",
                                                       "mcp config not found" }
                  /\ toolLog[i].outcome.config = ShortUUID(ConfigOf(k))
                  /\ toolLog[i].outcome.backend = "mcp" =>
                        toolLog[i].outcome.tool = SavedTools[k].Name
        /\ HasPrefix(toolLog[i].call.Name, InternalToolPrefix) =>
              toolLog[i].outcome.backend = "internal"

\* the LLM called the catalog name of the tool a_____b of s1: the Tool Invoker
\* split it into three parts and rejected it
C19_DelimiterInToolName ==
    /\ Len(toolLog) = 1
    /\ CatalogTool("k2") \in turn.tools
    /\ toolLog[1].call.Name = << "c", "1" >> \o CompositeKeyDelimiter \o ToolW
    /\ toolLog[1].call.Arguments = << "{", "}" >>
    /\ toolLog[1].outcome.err = "invalid tool name format"
    /\ toolLog[1].outcome.backend = "none"

----------------------------------------------------------------------------
(* Properties of the event stream, checked under Spec *)

\* the message types of the event stream
EventTypes ==
    { "answer_delta", "answer", "tool_call", "tool_call_processing", "tool_call_end",
      "error" }

\* C20: every frame written to the event stream of a turn has one of the six
\* message types and carries the conversation id and the request id of the turn,
\* in streaming mode, in blocking mode and in every recursive round
C20_FramesWellFormed ==
    \A i \in DOMAIN events :
        /\ events[i].MessageType \in EventTypes
        /\ events[i].ConversationID = ToString(turn.conv)
        /\ events[i].RequestID = turn.req

\* a blocking turn that invoked a tool and has written the frame with its result
C20_ToolResultFrame ==
    /\ turn.mode = "block"
    /\ pc = "dispatch"
    /\ Len(toolLog) = 1
    /\ Len(events) = 2
    /\ events[1].MessageType = "tool_call"
    /\ events[2].MessageType = "tool_result"
    /\ events[2].Content = round.toolResult
    /\ events[2].ConversationID = ToString(turn.conv)
    /\ events[2].RequestID = turn.req

----------------------------------------------------------------------------
(* Properties of cancellation, checked under SpecCancel *)

\* C21: after the consumer has abandoned the stream and the request context is
\* cancelled, the producer goroutine eventually ends; from the cancellation on no
\* LLM call is made and no tool reaches an MCP server, and the stored rows stay
\* stored
C21_ProducerTerminates ==
    /\ Cancelled ~> (pc = "done")
    /\ [][Cancelled =>
            /\ llmLog' = llmLog
            /\ toolLog' # toolLog => toolLog'[Len(toolLog')].outcome.backend # "mcp"
            /\ Len(messageRows') >= Len(messageRows)
            /\ SubSeq(messageRows', 1, Len(messageRows)) = messageRows]_vars

\* the consumer went away after the tool_call frame; the goroutine is in the write
\* of the tool_call_processing frame and the pipe is open
C21_BlockedInWrite ==
    /\ Cancelled
    /\ pc = "blocked"
    /\ ~closed
    /\ Len(events) = 1
    /\ events[1].MessageType = "tool_call"
    /\ CountRows("user") = 1
    /\ CountRows("function_call") = 0

----------------------------------------------------------------------------
(* Properties of the turn loop's termination, checked under SpecRounds *)

\* the LLM call of the current round returned at least one tool call
ReturnedToolCalls ==
    IF turn.mode = "stream"
    THEN DOMAIN round.finalToolCalls # {}
    ELSE \E k \in DOMAIN toolLog : toolLog[k].round = round.no

----------------------------------------------------------------------------
(* Properties of the receive loop, checked under Spec *)

\* C23: when stream.Recv fails with an error other than end-of-stream the turn
\* ends: the step writes an error frame and leaves the loop for the goroutine's
\* exit, so that a turn whose receive loop has met such an error holds an error
\* frame and receives no more
C23_RecvErrorEndsTurn ==
    /\ [][RecvError =>
            /\ Len(events') = Len(events) + 1
            /\ LastEventType' = "error"
            /\ pc' = "close"]_vars
    /\ [](round.recvErrors > 0 => (HasEvent("error") /\ pc \in { "close", "done" }))

\* a streaming turn whose receive loop met two errors in a row, went on
\* receiving, and ended with the answer of a later chunk and no error frame
C23_PolledAfterError ==
    /\ pc = "done"
    /\ closed
    /\ turn.mode = "stream"
    /\ round.no = 1
    /\ round.recvErrors = 2
    /\ round.chunks = 3
    /\ ~HasEvent("error")
    /\ Len(events) = 1
    /\ events[1].MessageType = "answer"

----------------------------------------------------------------------------
(* Properties of conversations used again, checked under SpecReuse *)

\* the rows the turn found when it loaded the conversation: those of earlier
\* requests, written by the calling agent and not deleted, in creation order
PriorRows ==
    SelectSeq(messageRows,
              LAMBDA r : /\ r.ConversationID = turn.conv
                         /\ r.ChatAgentID = turn.agent
                         /\ r.RequestID # turn.req
                         /\ ~r.DeletedAt)

PriorMessageRows == SelectSeq(PriorRows, LAMBDA r : r.Type = "message" /\ r.Role # "")

\* the history message of a stored message row
AsHistory(r) == ChatMessage(r.Role, r.Content, << >>, "")

\* the message list of the first LLM call between its system message and its
\* last message
HistorySent == SubSeq(llmLog[1], 2, Len(llmLog[1]) - 1)

Occurrences(seq, x) == Cardinality({ i \in DOMAIN seq : seq[i] = x })

CurrentUserRows ==
    SelectSeq(messageRows, LAMBDA r : r.RequestID = turn.req /\ RowKind(r) = "user")

\* C25: the message list of the first LLM call of a turn is one system message
\* with the system prompt, then the conversation's prior messages in ascending
\* creation order, then one user message with the current input, which is in
\* the list once
C25_OldestFirst ==
    (LlmTurn /\ llmLog # << >>) =>
        /\ Len(CurrentUserRows) = 1
        /\ llmLog[1] =
              << ChatMessage("system", SystemPrompt, << >>, "") >>
              \o [ i \in DOMAIN PriorMessageRows |-> AsHistory(PriorMessageRows[i]) ]
              \o << AsHistory(CurrentUserRows[1]) >>

\* a turn in a conversation that holds the user message and the answer of one
\* earlier turn: the LLM is given the answer before the user message
C25_NewestFirst ==
    /\ LlmTurn
    /\ Len(llmLog) >= 1
    /\ Len(PriorMessageRows) = 2
    /\ PriorMessageRows[1].Role = "user"
    /\ PriorMessageRows[2].Role = "assistant"
    /\ Len(CurrentUserRows) = 1
    /\ llmLog[1] = << ChatMessage("system", SystemPrompt, << >>, ""),
                      AsHistory(PriorMessageRows[2]),
                      AsHistory(PriorMessageRows[1]),
                      AsHistory(CurrentUserRows[1]) >>

----------------------------------------------------------------------------
(* Properties of the tool loop's order, checked under Spec *)

\* the ids of the tool calls invoked in the current round, in invocation order
DispatchedInRound ==
    LET entries == SelectSeq(toolLog, LAMBDA e : e.round = round.no)
    IN [ k \in DOMAIN entries |-> entries[k].call.ID ]

IsPrefix(s, t) == Len(s) <= Len(t) /\ s = SubSeq(t, 1, Len(s))

\* the ids of the tool-role messages of the message list, in list order
ToolMessageIds ==
    LET tools == SelectSeq(messages, LAMBDA m : m.Role = "tool")
    IN [ k \in DOMAIN tools |-> tools[k].ToolCallID ]

\* C26: in the streaming path the tool calls of a round are dispatched in the
\* order in which the stream first brought them, and their rows and their
\* messages for the next round follow in that order
C26_DispatchInStreamOrder ==
    turn.mode = "stream" =>
        /\ IsPrefix(DispatchedInRound, round.firstSeen)
        /\ (pc = "dispatch" /\ faults = 0) =>
              LET calls == RowsOfKind("function_call")
                  invoked == [ k \in DOMAIN toolLog |-> toolLog[k].call.ID ]
              IN /\ [ k \in DOMAIN calls |-> calls[k].FunctionCallID ] = invoked
                 /\ ToolMessageIds = invoked

\* the stream brought tc1 and then tc2; the tool loop took tc2 first
C26_LaterCallFirst ==
    /\ turn.mode = "stream"
    /\ round.firstSeen = << "tc1", "tc2" >>
    /\ Len(toolLog) >= 1
    /\ toolLog[1].call.ID = "tc2"
    /\ toolLog[1].round = round.no
    /\ HasEvent("tool_call")
    /\ EventsOfType("tool_call")[1].Content = InternalToolName

----------------------------------------------------------------------------
(* Ownership of the conversation a turn writes to, checked under SpecReuse *)

\* C27: UserSendMessage and UserSendMessagePredefinedAnswer write only to a
\* conversation of the calling agent and the request's service user: every
\* stored message row has the agent and the application of the conversation it
\* references, and the turn in flight is in a conversation of its own agent and
\* service user, also when the request names a stored conversation of another
\* agent or service user
C27_OwnConversationOnly ==
    /\ \A i \in DOMAIN messageRows :
          /\ messageRows[i].ChatAgentID
                = conversations[messageRows[i].ConversationID].ChatAgentID
          /\ messageRows[i].ApplicationID
                = conversations[messageRows[i].ConversationID].ApplicationID
    /\ (LlmTurn \/ PredefinedTurn) =>
          /\ conversations[turn.conv].ChatAgentID = turn.agent
          /\ conversations[turn.conv].ServiceUserID = turn.serviceUser

\* agentB named the conversation of agentA and u1 in a request of UserSendMessage
\* for u2: the turn runs in that conversation and its user message is stored there
C27_RowInForeignConversation ==
    /\ LlmTurn
    /\ result.op = "UserSendMessage"
    /\ result.ok
    /\ result.reqConv = "1"
    /\ turn.conv = 1
    /\ turn.agent = "agentB"
    /\ turn.serviceUser = "u2"
    /\ conversations[1].ChatAgentID = "agentA"
    /\ conversations[1].ServiceUserID = "u1"
    /\ conversations[2].st = "none"
    /\ Len(CurrentUserRows) = 1
    /\ CurrentUserRows[1].ConversationID = 1
    /\ CurrentUserRows[1].ChatAgentID = "agentB"
    /\ CurrentUserRows[1].ApplicationID = "app2"

----------------------------------------------------------------------------
(* Properties of DeleteConversation against a turn in flight, checked under  *)
(* SpecDelete                                                                *)

\* the message rows that reference the conversation and are not deleted
LiveRowsOf(c) ==
    { i \in DOMAIN messageRows :
        messageRows[i].ConversationID = c /\ ~messageRows[i].DeletedAt }

\* C28: once DeleteConversation has reported success for a conversation no
\* message row that is not deleted references it, also when a turn of
\* UserSendMessage that resolved the conversation before the delete stores
\* rows after it
C28_NoRowsAfterDelete ==
    \A c \in ConvIds : conversations[c].st = "deleted" => LiveRowsOf(c) = {}

\* the conversation was deleted while its streaming turn was in the tool loop:
\* the rows the turn stored afterwards reference it and are not deleted
C28_RowsOfDeletedConversation ==
    /\ conversations[1].st = "deleted"
    /\ turn.conv = 1
    /\ turn.mode = "stream"
    /\ pc = "done"
    /\ Len(messageRows) = 4
    /\ messageRows[1].DeletedAt
    /\ messageRows[2].DeletedAt
    /\ LiveRowsOf(1) = { 3, 4 }
    /\ messageRows[3].Type = "function_call_output"
    /\ RowKind(messageRows[4]) = "assistant"

----------------------------------------------------------------------------
(* Properties of the Tool Invoker, checked under SpecInvoke *)

\* the tool call was carried out by an MCP server
ExecutedRemotely(entry) == entry.outcome.backend = "mcp"

\* C29: an MCP tool is executed only if its composite name was in the tool list
\* offered to the LLM for this turn, and only against an MCP server
\* configuration of the calling agent's application; a tool call with any other
\* config id or tool name reaches no remote server
C29_OnlyOfferedTools ==
    \A i \in DOMAIN toolLog :
        ExecutedRemotely(toolLog[i]) =>
            /\ \E tool \in turn.tools : tool.Name = toolLog[i].call.Name
            /\ McpConfigApplication(toolLog[i].outcome.config) = ApplicationOf(turn.agent)

\* the tool t of s1 is not enabled for the agent and not in the turn's list; the
\* LLM named it and it was executed by its server
C29_DisabledToolExecuted ==
    /\ LlmTurn
    /\ mcpStore.enabled.k1 = "disabled"
    /\ \A tool \in turn.tools : tool.Name # McpToolName
    /\ Len(toolLog) = 1
    /\ toolLog[1].call.Name = McpToolName
    /\ toolLog[1].outcome.backend = "mcp"
    /\ toolLog[1].outcome.err = ""
    /\ toolLog[1].outcome.config = << "c", "1" >>
    /\ toolLog[1].outcome.tool = ToolT

----------------------------------------------------------------------------
(* Outcome of DeleteConversation, checked under SpecConv *)

\* a step that is a call of DeleteConversation
DeleteStep == result'.op = "DeleteConversation" /\ vars' # vars

\* C30: when DeleteConversation returns Success=false (invalid id, missing
\* conversation, ownership mismatch, message query failure, failure to delete
\* the conversation row) it has deleted no message and no attachment; when it
\* returns Success=true the conversation, every message of it and every
\* attachment bound to those messages are deleted
C30_DeleteAllOrNothing ==
    [][DeleteStep =>
         IF result'.ok
         THEN LET c == UuidParse(result'.reqConv) IN
              /\ conversations'[c].st = "deleted"
              /\ \A i \in DOMAIN messageRows' :
                    messageRows'[i].ConversationID = c => messageRows'[i].DeletedAt
              /\ \A j \in DOMAIN attachments' :
                    attachments'[j].ConversationID = c => attachments'[j].DeletedAt
         ELSE /\ messageRows' = messageRows
              /\ attachments' = attachments
              /\ conversations' = conversations]_vars

\* DeleteConversation failed to delete the conversation row and returned
\* Success=false: the conversation is stored, its message and the attachment
\* bound to it are deleted
C30_FailedAfterDeleting ==
    /\ result.op = "DeleteConversation"
    /\ ~result.ok
    /\ result.err = "delete conversation failed"
    /\ result.reqConv = "1"
    /\ conversations[1].st = "live"
    /\ \E i \in DOMAIN messageRows :
          /\ messageRows[i].ConversationID = 1
          /\ messageRows[i].DeletedAt
          /\ \E j \in DOMAIN attachments :
                attachments[j].MessageID = i /\ attachments[j].DeletedAt

====
